---------------------------- MODULE Spec2Model ----------------------------
(***************************************************************************)
(* Model of the customer search / customer creation component              *)
(* (componente_busqueda_clientes.py) of the service-request form.          *)
(*                                                                         *)
(* Text values are sequences of one-character strings.  SQL NULL / Python  *)
(* None is NULO for text columns and NINGUNO for scalar parameters.        *)
(***************************************************************************)
EXTENDS Integers, Sequences, FiniteSets, TLC

VARIABLES
    clientes,       \* table "clientes": a set of rows, each with its serial id
    llamada,        \* arguments of the last search call
    relevantes,     \* rows of the CTE clientes_relevantes of the last search
    resultados,     \* list returned by the last buscar_clientes_db call
    conexiones,     \* psycopg2.connect calls made by the last search call
    mensajes,       \* notices put on the page by the last search run
    excepcion,      \* TRUE when the last search call let an exception escape
    modo_nuevo,     \* per session: st.session_state[<prefix>_modo_nuevo]
    seleccionado,   \* per session: st.session_state[<prefix>_seleccionado]
    nuevo_cliente,  \* per session: contents of the new-customer form
    verificacion,   \* per session: outcome of the duplicate check of the last rerun
    pc,             \* per session: position inside the Guardar rerun
    alta,           \* per session: the last insertar_cliente_nuevo call and its outcome
    data,           \* the dictionary "data" of the service-request form
    validacion,     \* the last validar_campos_obligatorios call and what it returned
    fase,           \* position of the script run that handles "Enviar Solicitud"
    bd,             \* committed rows of solicitudes, equipos, archivos_adjuntos
    tx,             \* rows written by the open transaction of insertar_solicitud
    sesion,         \* st.session_state of the form
    reloj,          \* datetime.now(), in hours
    envio,          \* what the last "Enviar Solicitud" run did, step by step
    entorno         \* what surrounds the form in this run: which services can fail

vars == <<clientes, llamada, relevantes, resultados, conexiones, mensajes, excepcion,
          modo_nuevo, seleccionado, nuevo_cliente, verificacion, pc, alta,
          data, validacion, fase, bd, tx, sesion, reloj, envio, entorno>>

varsBusqueda == <<llamada, relevantes, resultados, conexiones, mensajes, excepcion>>

varsSesion == <<modo_nuevo, seleccionado, nuevo_cliente, verificacion, pc, alta>>

\* the customer component: table, search and selector sessions
varsComponente == <<clientes, varsBusqueda, varsSesion>>

\* the service-request form
varsEnvio == <<fase, bd, tx, sesion, reloj, envio>>

varsFormulario == <<data, validacion, varsEnvio, entorno>>

---------------------------------------------------------------------------
(* Bounds of the model *)

\* longest search text the user types
MaxLargoTexto == 2

\* most rows of the table "clientes" in a search run
MaxFilas == 2

\* largest value of the parameter limite
MaxLimite == 2

\* most rows the sessions insert into "clientes"
MaxAltas == 2

---------------------------------------------------------------------------
(* Values *)

NULO == <<"NULL">>

NINGUNO == "None"

\* characters a user can type in the search box: letters in both cases,
\* digits, and the two characters LIKE reads as wildcards
Alfabeto == {"a", "A", "1", "2", "%", "_"}

Textos == UNION {[1..n -> Alfabeto] : n \in 0..MaxLargoTexto}

TiposFiltro == {NINGUNO, "Paciente"}

Comerciales == {NINGUNO, "Ariel"}

Fallas == {"ninguna", "conexion", "consulta"}

\* str.lower / SQL LOWER on one character
MinusculaDe(c) == IF c = "A" THEN "a" ELSE c

Minusculas(s) == IF s = NULO THEN NULO ELSE [i \in 1..Len(s) |-> MinusculaDe(s[i])]

\* position of a character in the collation (byte order)
Rango(c) ==
    CASE c = "%" -> 1
      [] c = "-" -> 2
      [] c = "0" -> 3
      [] c = "1" -> 4
      [] c = "2" -> 5
      [] c = "3" -> 6
      [] c = "4" -> 7
      [] c = "5" -> 8
      [] c = "6" -> 9
      [] c = "7" -> 10
      [] c = "8" -> 11
      [] c = "A" -> 12
      [] c = "_" -> 13
      [] c = "a" -> 14
      [] OTHER -> 15

Min2(a, b) == IF a <= b THEN a ELSE b

---------------------------------------------------------------------------
(* normalizar_cuit_dni *)

EsDigito(c) == c \in {"0", "1", "2", "3", "4", "5", "6", "7", "8", "9"}

normalizar_cuit_dni(cuit_dni) ==
    IF cuit_dni = NULO \/ cuit_dni = <<>> THEN <<>>
    ELSE SelectSeq(cuit_dni, EsDigito)

---------------------------------------------------------------------------
(* SQL text operators *)

RECURSIVE CoincidePatron(_, _)
\* s LIKE p for non-NULL operands: % is any run of characters, _ any one
CoincidePatron(s, p) ==
    IF p = <<>> THEN s = <<>>
    ELSE IF Head(p) = "%"
         THEN CoincidePatron(s, Tail(p))
              \/ (s # <<>> /\ CoincidePatron(Tail(s), p))
         ELSE /\ s # <<>>
              /\ (Head(p) = "_" \/ Head(p) = Head(s))
              /\ CoincidePatron(Tail(s), Tail(p))

\* s LIKE p as a WHEN / WHERE condition: NULL counts as not true
LIKE(s, p) == s # NULO /\ p # NULO /\ CoincidePatron(s, p)

ILIKE(s, p) == LIKE(Minusculas(s), Minusculas(p))

COALESCE3(a, b, c) == IF a # NULO THEN a ELSE IF b # NULO THEN b ELSE c

---------------------------------------------------------------------------
(* Rows of the table "clientes" used by the search runs *)

FilaCliente(id, tipo, nf, rs, na, cuit, bt, asignado, visible, act) ==
    [id |-> id, tipo_cliente |-> tipo, nombre_fantasia |-> nf, razon_social |-> rs,
     nombre_apellido |-> na, cuit_dni |-> cuit, busqueda_texto |-> bt,
     comercial_asignado |-> asignado, visible_para_todos |-> visible, activo |-> act]

\* the rows a table is drawn from
FilasPosibles ==
    { FilaCliente(1, "Distribuidor", <<"A", "a">>, <<"a", "1">>, NULO, <<"1", "2">>,
                  <<"a", "a", "1", "2">>, {"Ariel"}, TRUE, TRUE),
      FilaCliente(2, "Paciente", NULO, NULO, <<"a", "A", "1">>, <<"2", "2">>,
                  <<"a", "a", "1", "2", "2">>, {}, TRUE, TRUE),
      FilaCliente(3, "Institución", NULO, <<"2", "1">>, NULO, <<"2", "1">>,
                  <<"2", "1", "2", "1">>, {}, TRUE, TRUE),
      FilaCliente(4, "Distribuidor", <<"a", "a">>, NULO, NULO, <<"1", "2">>,
                  <<"a", "a", "1", "2">>, {"Ariel"}, TRUE, FALSE),
      FilaCliente(5, "Paciente", <<"a", "2">>, NULO, <<"a", "a">>, <<"2", "2", "1">>,
                  <<"a", "a", "2", "2", "1">>, {"Clara", "Ariel"}, FALSE, TRUE),
      FilaCliente(6, "Distribuidor", <<"A", "a">>, NULO, NULO, <<"1", "2">>,
                  <<"a", "a", "1", "2">>, {"Ariel"}, TRUE, TRUE),
      FilaCliente(7, "Institución", NULO, NULO, NULO, <<"1", "2", "1">>,
                  NULO, {}, FALSE, TRUE) }

Tablas == {t \in SUBSET FilasPosibles : Cardinality(t) <= MaxFilas}

---------------------------------------------------------------------------
(* buscar_clientes_db *)

\* mutant of consulta_corta: only the empty text is refused
consulta_corta_vacia(texto_busqueda) == Len(texto_busqueda) < 1

\* the guard of the function: a text too short to search
consulta_corta(texto_busqueda) == Len(texto_busqueda) < 2

\* CASE ... END as nombre_display
nombre_display(c) ==
    IF c.tipo_cliente = "Paciente" THEN c.nombre_apellido
    ELSE IF c.nombre_fantasia # NULO THEN c.nombre_fantasia ELSE c.razon_social

\* mutant of puntos_comercial: the bonus of the comercial is worth a name match
puntos_comercial_bajo(c, comercial) ==
    IF comercial # NINGUNO /\ comercial \in c.comercial_asignado THEN 100 ELSE 0

\* Prioridad 1: %s = ANY(comercial_asignado); a NULL parameter is never equal
puntos_comercial(c, comercial) ==
    IF comercial # NINGUNO /\ comercial \in c.comercial_asignado THEN 1000 ELSE 0

\* Prioridad 2
puntos_visible(c) == IF c.visible_para_todos = TRUE THEN 500 ELSE 0

\* mutant of puntos_cuit: two independent CASE terms, so an equal CUIT earns both
puntos_cuit_suma(c, texto_normalizado) ==
    (IF c.cuit_dni # NULO /\ c.cuit_dni = texto_normalizado THEN 300 ELSE 0)
    + (IF LIKE(c.cuit_dni, <<"%">> \o texto_normalizado \o <<"%">>) THEN 200 ELSE 0)

\* Bonus por CUIT/DNI: the first WHEN that holds decides
puntos_cuit(c, texto_normalizado) ==
    IF c.cuit_dni # NULO /\ c.cuit_dni = texto_normalizado THEN 300
    ELSE IF LIKE(c.cuit_dni, <<"%">> \o texto_normalizado \o <<"%">>) THEN 200
    ELSE 0

\* mutant of puntos_nombre: 250 for a display name that starts with the text
puntos_nombre_prefijo(c, texto_busqueda) ==
    IF LIKE(Minusculas(IF c.tipo_cliente = "Paciente" THEN c.nombre_apellido
                       ELSE IF c.nombre_fantasia # NULO THEN c.nombre_fantasia
                       ELSE c.razon_social),
            Minusculas(texto_busqueda \o <<"%">>)) THEN 250
    ELSE IF LIKE(Minusculas(c.busqueda_texto), Minusculas(texto_busqueda \o <<"%">>)) THEN 150
    ELSE IF ILIKE(c.busqueda_texto, <<"%">> \o texto_busqueda \o <<"%">>) THEN 100
    ELSE 0

\* Bonus por nombre: the first WHEN that holds decides
puntos_nombre(c, texto_busqueda) ==
    IF LIKE(Minusculas(COALESCE3(c.nombre_fantasia, c.nombre_apellido, c.razon_social)),
            Minusculas(texto_busqueda)) THEN 250
    ELSE IF LIKE(Minusculas(c.busqueda_texto), Minusculas(texto_busqueda \o <<"%">>)) THEN 150
    ELSE IF ILIKE(c.busqueda_texto, <<"%">> \o texto_busqueda \o <<"%">>) THEN 100
    ELSE 0

\* FROM clientes WHERE ...
filtro_where(c, texto_busqueda, tipo_cliente) ==
    /\ c.activo = TRUE
    /\ \/ ILIKE(c.busqueda_texto, <<"%">> \o texto_busqueda \o <<"%">>)
       \/ ILIKE(c.cuit_dni, <<"%">> \o texto_busqueda \o <<"%">>)
    /\ (tipo_cliente = NINGUNO \/ c.tipo_cliente = tipo_cliente)

\* one row of the CTE clientes_relevantes, with the four terms of its score
fila_relevante(c, texto_busqueda, comercial) ==
    LET pc1 == puntos_comercial(c, comercial)
        pv == puntos_visible(c)
        pq == puntos_cuit(c, normalizar_cuit_dni(texto_busqueda))
        pn == puntos_nombre(c, texto_busqueda)
    IN  [id |-> c.id, tipo_cliente |-> c.tipo_cliente, nombre_display |-> nombre_display(c),
         cuit_dni |-> c.cuit_dni, comercial_asignado |-> c.comercial_asignado,
         puntos_comercial |-> pc1, puntos_visible |-> pv, puntos_cuit |-> pq,
         puntos_nombre |-> pn, relevancia_score |-> pc1 + pv + pq + pn]

clientes_relevantes(tabla, texto_busqueda, tipo_cliente, comercial) ==
    { fila_relevante(c, texto_busqueda, comercial) :
        c \in {x \in tabla : filtro_where(x, texto_busqueda, tipo_cliente)} }

\* WHERE relevancia_score > 0
filtro_score(r) == r.relevancia_score > 0

RECURSIVE TextoMenor(_, _)
\* a < b in the collation
TextoMenor(a, b) ==
    IF b = <<>> THEN FALSE
    ELSE IF a = <<>> THEN TRUE
    ELSE IF Head(a) # Head(b) THEN Rango(Head(a)) < Rango(Head(b))
    ELSE TextoMenor(Tail(a), Tail(b))

\* nombre_display ASC: NULL sorts after every text
nombre_antes(a, b) ==
    IF a = NULO THEN FALSE
    ELSE IF b = NULO THEN TRUE
    ELSE TextoMenor(a, b)

\* mutant of orden_antes: ORDER BY relevancia_score DESC, nombre_display DESC
orden_antes_nombre_desc(r1, r2) ==
    \/ r1.relevancia_score > r2.relevancia_score
    \/ /\ r1.relevancia_score = r2.relevancia_score
       /\ nombre_antes(r2.nombre_display, r1.nombre_display)

\* ORDER BY relevancia_score DESC, nombre_display ASC: r1 must come before r2
orden_antes(r1, r2) ==
    \/ r1.relevancia_score > r2.relevancia_score
    \/ /\ r1.relevancia_score = r2.relevancia_score
       /\ nombre_antes(r1.nombre_display, r2.nombre_display)

RECURSIVE ordenar(_, _)
\* the rows of S in ORDER BY order; rows the ORDER BY does not tell apart come in
\* the order the engine happens to produce (desempate)
ordenar(S, desempate) ==
    IF S = {} THEN <<>>
    ELSE LET primeros == {r \in S : \A o \in S : ~orden_antes(o, r)}
             r1 == CHOOSE r \in primeros :
                     \A o \in primeros :
                        IF desempate = "asc" THEN r.id <= o.id ELSE r.id >= o.id
         IN  <<r1>> \o ordenar(S \ {r1}, desempate)

\* LIMIT %s
aplicar_limite(filas, limite) == SubSeq(filas, 1, Min2(limite, Len(filas)))

\* the dictionaries built from cur.fetchall()
fila_resultado(r) ==
    [id |-> r.id, tipo_cliente |-> r.tipo_cliente, nombre_display |-> r.nombre_display,
     cuit_dni |-> r.cuit_dni, comercial_asignado |-> r.comercial_asignado,
     relevancia_score |-> r.relevancia_score]

\* mutant of busqueda_fallida: the exception is not caught
busqueda_fallida_propaga ==
    [resultados |-> <<>>, relevantes |-> {}, conexiones |-> 1,
     mensajes |-> {}, excepcion |-> TRUE]

\* except Exception: st.error(...); return []
busqueda_fallida ==
    [resultados |-> <<>>, relevantes |-> {}, conexiones |-> 1,
     mensajes |-> {"error_busqueda"}, excepcion |-> FALSE]

buscar_clientes_db(tabla, texto_busqueda, tipo_cliente, comercial, limite, falla, desempate) ==
    IF consulta_corta(texto_busqueda)
    THEN [resultados |-> <<>>, relevantes |-> {}, conexiones |-> 0,
          mensajes |-> {}, excepcion |-> FALSE]
    ELSE IF falla # "ninguna" THEN busqueda_fallida
    ELSE LET cte == clientes_relevantes(tabla, texto_busqueda, tipo_cliente, comercial)
             filas == ordenar({r \in cte : filtro_score(r)}, desempate)
             devueltas == aplicar_limite(filas, limite)
         IN  [resultados |-> [i \in 1..Len(devueltas) |-> fila_resultado(devueltas[i])],
              relevantes |-> cte, conexiones |-> 1, mensajes |-> {}, excepcion |-> FALSE]

\* the results the selector lists under "Tus clientes asignados"
clientes_prioritarios(res) == SelectSeq(res, LAMBDA r : r.relevancia_score >= 1000)

\* the results the selector lists under "Otros clientes"
clientes_comunes(res) == SelectSeq(res, LAMBDA r : r.relevancia_score < 1000)

\* what the selector shows after the call (lines 408-431 of the component)
avisos_selector(texto_a_buscar, res) ==
    IF Len(texto_a_buscar) >= 2
    THEN IF res.resultados # <<>> THEN {} ELSE {"sin_resultados", "sugerir_nuevo"}
    ELSE IF texto_a_buscar # <<>> THEN {"minimo_2"} ELSE {"comience_a_escribir"}

---------------------------------------------------------------------------
(* Search runs: a call of buscar_clientes_db, alone or from the selector *)

Sesiones == {"s1", "s2"}

\* the comercial each session's selector was given
ComercialDe(s) == IF s = "s1" THEN "Ariel" ELSE NINGUNO

SinAlta == [llamado |-> FALSE]

SinLlamada == [origen |-> "ninguna"]

SinCliente == [id |-> 0]

FormularioVacio == [tipo_cliente |-> "", nombre |-> <<>>, cuit_dni |-> <<>>]

InitSesion ==
    /\ modo_nuevo = [s \in Sesiones |-> FALSE]
    /\ seleccionado = [s \in Sesiones |-> SinCliente]
    /\ nuevo_cliente = [s \in Sesiones |-> FormularioVacio]
    /\ verificacion = [s \in Sesiones |-> "no_ejecutada"]
    /\ pc = [s \in Sesiones |-> "reposo"]
    /\ alta = [s \in Sesiones |-> SinAlta]

\* the tables of the form, empty, with their id sequences
BdVacia ==
    [solicitudes |-> {}, equipos |-> {}, archivos_adjuntos |-> {},
     solicitudes_id_seq |-> 0, equipos_id_seq |-> 0]

\* no transaction open
SinTransaccion == [abierta |-> FALSE, solicitudes |-> {}, equipos |-> {},
                   archivos_adjuntos |-> {}, equipos_ids |-> <<>>, equipos_osts |-> <<>>]

\* st.session_state of a new browser session (.get defaults for the absent keys)
SesionNueva ==
    [formulario_enviado |-> FALSE, solicitud_id |-> 0, rate_limit |-> <<>>,
     intentos_sospechosos |-> 0, captcha_valido |-> FALSE, pdf_bytes |-> FALSE]

\* nothing submitted in this run
SinEnvio ==
    [numero |-> 0, pasos |-> <<>>, entregado_valido |-> TRUE, solicitud_id |-> 0,
     retorno |-> "", excepcion |-> FALSE, error_mostrado |-> FALSE, filas_deshechas |-> 0,
     aprobadas |-> <<>>, equipos_osts |-> <<>>,
     pdf |-> [hecho |-> FALSE, titulo |-> 0, filas |-> <<>>],
     formulario |-> [equipos |-> <<>>, facturas |-> <<>>]]

InitEnvio ==
    /\ fase = "formulario"
    /\ bd = BdVacia
    /\ tx = SinTransaccion
    /\ sesion = SesionNueva
    /\ reloj = 0
    /\ envio = SinEnvio

\* the form is not open in the runs of the customer component
FormularioSinAbrir ==
    /\ data = [quien_completa |-> ""]
    /\ validacion = [hecha |-> FALSE]
    /\ InitEnvio
    /\ entorno = "con_fallas"

InitBusqueda ==
    /\ FormularioSinAbrir
    /\ clientes \in Tablas
    /\ llamada = SinLlamada
    /\ relevantes = {}
    /\ resultados = <<>>
    /\ conexiones = 0
    /\ mensajes = {}
    /\ excepcion = FALSE
    /\ InitSesion

Desempates == {"asc", "desc"}

\* limite=15 in both selectors
LimiteSelector == 15

\* a direct call of buscar_clientes_db with any arguments; the call only reads
\* the table, so a run holds one call
LlamarBuscar ==
    /\ llamada.origen = "ninguna"
    /\ \E texto \in Textos, tipo \in TiposFiltro, comercial \in Comerciales,
          limite \in 1..MaxLimite, falla \in Fallas :
        \E desempate \in IF falla = "ninguna" THEN Desempates ELSE {"asc"} :
          \E res \in {buscar_clientes_db(clientes, texto, tipo, comercial, limite, falla, desempate)} :
              /\ llamada' = [origen |-> "funcion", texto |-> texto, tipo_cliente |-> tipo,
                             comercial |-> comercial, limite |-> limite, falla |-> falla]
              /\ relevantes' = res.relevantes
              /\ resultados' = res.resultados
              /\ conexiones' = res.conexiones
              /\ mensajes' = res.mensajes
              /\ excepcion' = res.excepcion
              /\ UNCHANGED <<clientes, varsSesion, varsFormulario>>

\* a rerun of the selector in search view with the text of the input box
SelectorBuscar ==
    /\ llamada.origen = "ninguna"
    /\ \E texto \in Textos, tipo \in TiposFiltro, comercial \in Comerciales :
        \E falla \in IF Len(texto) >= 2 THEN Fallas ELSE {"ninguna"} :
        \E desempate \in IF falla = "ninguna" /\ Len(texto) >= 2 THEN Desempates ELSE {"asc"} :
          \E res \in {IF Len(texto) >= 2
                      THEN buscar_clientes_db(clientes, texto, tipo, comercial,
                                              LimiteSelector, falla, desempate)
                      ELSE [resultados |-> <<>>, relevantes |-> {}, conexiones |-> 0,
                            mensajes |-> {}, excepcion |-> FALSE]} :
              /\ llamada' = [origen |-> "selector", texto |-> texto, tipo_cliente |-> tipo,
                             comercial |-> comercial, limite |-> LimiteSelector, falla |-> falla]
              /\ relevantes' = res.relevantes
              /\ resultados' = res.resultados
              /\ conexiones' = res.conexiones
              /\ mensajes' = res.mensajes \cup
                               (IF res.excepcion THEN {} ELSE avisos_selector(texto, res))
              /\ excepcion' = res.excepcion
              /\ UNCHANGED <<clientes, varsSesion, varsFormulario>>

NextBusqueda == LlamarBuscar \/ SelectorBuscar

SpecBusqueda == InitBusqueda /\ [][NextBusqueda]_vars

---------------------------------------------------------------------------
(* verificar_cuit_dni_existe, insertar_cliente_nuevo *)

\* SELECT COUNT(*) FROM clientes WHERE cuit_dni = %s; FALSE also after an exception
verificar_cuit_dni_existe(tabla, cuit_dni, falla) ==
    LET cuit_normalizado == normalizar_cuit_dni(cuit_dni)
    IN  IF cuit_normalizado = <<>> THEN FALSE
        ELSE IF falla # "ninguna" THEN FALSE
        ELSE \E c \in tabla : c.cuit_dni = cuit_normalizado

\* RETURNING id: the next value of the serial column
siguiente_id(tabla) == Cardinality(tabla) + 1

\* the row the INSERT stores for the form's dictionary
fila_nueva(tabla, datos_cliente, comercial) ==
    FilaCliente(siguiente_id(tabla),
                datos_cliente.tipo_cliente,
                IF datos_cliente.tipo_cliente = "Paciente" THEN NULO ELSE datos_cliente.nombre,
                IF datos_cliente.tipo_cliente = "Paciente" THEN NULO ELSE <<>>,
                IF datos_cliente.tipo_cliente = "Paciente" THEN datos_cliente.nombre ELSE NULO,
                normalizar_cuit_dni(datos_cliente.cuit_dni),
                NULO,
                IF comercial # NINGUNO THEN {comercial} ELSE {},
                TRUE, TRUE)

\* what can go wrong in insertar_cliente_nuevo: connect raises ("conexion"), the
\* INSERT or the commit raises on a live connection ("consulta"), or the
\* connection is lost while the statement runs ("conexion_perdida")
FallasAlta == {"ninguna", "conexion", "consulta", "conexion_perdida"}

\* the except block: after a failed connect there is no conn and None is
\* returned; otherwise conn.rollback() is called unguarded, and on a connection
\* that was lost it raises out of the handler
rollback_falla(falla) == falla = "conexion_perdida"

\* mutant of insertar_cliente_nuevo: a UNIQUE constraint on cuit_dni makes the
\* INSERT of a second row with the same CUIT/DNI fail
insertar_cliente_nuevo_unico(tabla, datos_cliente, comercial, falla) ==
    IF falla # "ninguna"
       \/ \E c \in tabla : c.cuit_dni = normalizar_cuit_dni(datos_cliente.cuit_dni)
    THEN [cliente_id |-> 0, tabla |-> tabla, excepcion |-> rollback_falla(falla)]
    ELSE [cliente_id |-> siguiente_id(tabla), excepcion |-> FALSE,
          tabla |-> tabla \cup {fila_nueva(tabla, datos_cliente, comercial)}]

\* cliente_id 0 stands for None; nothing of a failed call is committed.
\* excepcion: the call ends with an exception instead of a return value
insertar_cliente_nuevo(tabla, datos_cliente, comercial, falla) ==
    IF falla # "ninguna"
    THEN [cliente_id |-> 0, tabla |-> tabla, excepcion |-> rollback_falla(falla)]
    ELSE [cliente_id |-> siguiente_id(tabla), excepcion |-> FALSE,
          tabla |-> tabla \cup {fila_nueva(tabla, datos_cliente, comercial)}]

---------------------------------------------------------------------------
(* formulario_nuevo_cliente *)

\* DNI: at least 7 characters, max_chars=8
MinDni == 7

MaxCharsDni == 8

\* CUIT: 11 characters, max_chars=11
LargoCuit == 11

\* str.isdigit
isdigit(t) == t # <<>> /\ \A i \in 1..Len(t) : EsDigito(t[i])

Formulario(tipo, nombre, cuit) == [tipo_cliente |-> tipo, nombre |-> nombre, cuit_dni |-> cuit]

\* max_chars of the DNI / CUIT field
max_chars(tipo) == IF tipo = "Paciente" THEN MaxCharsDni ELSE LargoCuit

\* what a user types into the new-customer form
Entradas ==
    { e \in
        { Formulario("Paciente", <<"a">>, <<"1", "2", "3", "4", "5", "6", "7">>),
          Formulario("Paciente", <<"a">>, <<"1", "2", "3", "4", "-", "5", "6", "7">>),
          Formulario("Paciente", <<>>, <<"1", "2", "3", "4", "5", "6">>),
          Formulario("Distribuidor", <<"a">>,
                     <<"3", "0", "-", "7", "1", "8", "3", "4", "3", "8", "3">>) } :
        Len(e.cuit_dni) <= max_chars(e.tipo_cliente) }

\* the inline validation of the DNI / CUIT field and the notice it shows
validacion_cuit(tabla, datos, falla) ==
    LET t == datos.cuit_dni
        minimo == IF datos.tipo_cliente = "Paciente" THEN MinDni ELSE LargoCuit
    IN  IF t = <<>> THEN "no_ejecutada"
        ELSE IF ~isdigit(t) THEN "no_digitos"
        ELSE IF Len(t) < minimo THEN "incompleto"
        ELSE IF verificar_cuit_dni_existe(tabla, t, falla) THEN "existe"
        ELSE IF falla # "ninguna" THEN "error"
        ELSE "libre"

\* disabled=not campos_validos
campos_validos(datos) ==
    IF datos.tipo_cliente = "" THEN FALSE
    ELSE IF datos.tipo_cliente = "Paciente"
    THEN datos.nombre # <<>> /\ datos.cuit_dni # <<>> /\ Len(datos.cuit_dni) >= MinDni
    ELSE datos.nombre # <<>> /\ datos.cuit_dni # <<>> /\ Len(datos.cuit_dni) = LargoCuit

\* the dictionary left in <prefix>_seleccionado after a successful Guardar
cliente_creado(datos, cliente_id) ==
    [id |-> cliente_id, tipo_cliente |-> datos.tipo_cliente, nombre_display |-> datos.nombre,
     cuit_dni |-> datos.cuit_dni, relevancia_score |-> 1000]

\* mutant of guardado_exitoso: the new customer is selected but the form stays
\* in new-customer mode
guardado_sin_salir(datos, cliente_id) ==
    [seleccionado |-> cliente_creado(datos, cliente_id), modo_nuevo |-> TRUE]

\* what a successful Guardar leaves in <prefix>_seleccionado and
\* <prefix>_modo_nuevo
guardado_exitoso(datos, cliente_id) ==
    [seleccionado |-> cliente_creado(datos, cliente_id), modo_nuevo |-> FALSE]

\* the view a rerun of the selector draws
vista(sel, modo) ==
    IF sel # SinCliente /\ ~modo THEN "seleccionado"
    ELSE IF modo THEN "nuevo"
    ELSE "busqueda"

\* the value componente_selector_cliente_inteligente returns; SinCliente is None
componente_selector_cliente_inteligente(sel, modo) ==
    IF vista(sel, modo) = "seleccionado" THEN sel ELSE SinCliente

FallasBd == {"ninguna", "conexion"}

InitClientes ==
    /\ FormularioSinAbrir
    /\ clientes = {}
    /\ llamada = SinLlamada
    /\ relevantes = {}
    /\ resultados = <<>>
    /\ conexiones = 0
    /\ mensajes = {}
    /\ excepcion = FALSE
    /\ InitSesion

\* "➕ Nuevo" in the search view
Nuevo(s) ==
    /\ pc[s] = "reposo"
    /\ ~modo_nuevo[s]
    /\ seleccionado[s].id = 0
    /\ modo_nuevo' = [modo_nuevo EXCEPT ![s] = TRUE]
    /\ nuevo_cliente' = [nuevo_cliente EXCEPT ![s] = FormularioVacio]
    /\ verificacion' = [verificacion EXCEPT ![s] = "no_ejecutada"]
    /\ UNCHANGED <<clientes, varsBusqueda, varsFormulario, seleccionado, pc, alta>>

\* the user edits the form; the rerun validates the DNI / CUIT field
Escribir(s) ==
    /\ pc[s] = "reposo"
    /\ modo_nuevo[s]
    /\ \E e \in Entradas \ {nuevo_cliente[s]} :
       \E v \in {validacion_cuit(clientes, e, falla) : falla \in FallasBd} :
        /\ nuevo_cliente' = [nuevo_cliente EXCEPT ![s] = e]
        /\ verificacion' = [verificacion EXCEPT ![s] = v]
    /\ UNCHANGED <<clientes, varsBusqueda, varsFormulario, modo_nuevo, seleccionado, pc, alta>>

\* "❌ Cancelar"
Cancelar(s) ==
    /\ pc[s] = "reposo"
    /\ modo_nuevo[s]
    /\ modo_nuevo' = [modo_nuevo EXCEPT ![s] = FALSE]
    /\ nuevo_cliente' = [nuevo_cliente EXCEPT ![s] = FormularioVacio]
    /\ verificacion' = [verificacion EXCEPT ![s] = "no_ejecutada"]
    /\ UNCHANGED <<clientes, varsBusqueda, varsFormulario, seleccionado, pc, alta>>

\* "💾 Guardar", first part of the rerun: the form is drawn again, which runs
\* the validation of the DNI / CUIT field, and the button (enabled by
\* campos_validos) reports the click
ClickGuardar(s) ==
    /\ pc[s] = "reposo"
    /\ modo_nuevo[s]
    /\ campos_validos(nuevo_cliente[s])
    /\ Cardinality(clientes) < MaxAltas
    /\ \E v \in {validacion_cuit(clientes, nuevo_cliente[s], falla) : falla \in FallasBd} :
        verificacion' = [verificacion EXCEPT ![s] = v]
    /\ pc' = [pc EXCEPT ![s] = "insertando"]
    /\ UNCHANGED <<clientes, varsBusqueda, varsFormulario, modo_nuevo, seleccionado, nuevo_cliente, alta>>

\* "💾 Guardar", second part of the rerun: insertar_cliente_nuevo on a
\* connection of its own, then the selection of the new customer
InsertarCliente(s) ==
    /\ pc[s] = "insertando"
    /\ \E llamado \in {[fallo |-> falla # "ninguna",
                          res |-> insertar_cliente_nuevo(clientes, nuevo_cliente[s],
                                                         ComercialDe(s), falla)] :
                            falla \in FallasAlta} :
       \E res \in {llamado.res} :
        /\ clientes' = res.tabla
        /\ alta' = [alta EXCEPT ![s] =
                      [llamado |-> TRUE, fallo |-> llamado.fallo, cliente_id |-> res.cliente_id,
                       excepcion |-> res.excepcion,
                       cuit_dni |-> normalizar_cuit_dni(nuevo_cliente[s].cuit_dni)]]
        /\ IF res.cliente_id # 0
           THEN /\ seleccionado' =
                     [seleccionado EXCEPT
                        ![s] = guardado_exitoso(nuevo_cliente[s], res.cliente_id).seleccionado]
                /\ modo_nuevo' =
                     [modo_nuevo EXCEPT
                        ![s] = guardado_exitoso(nuevo_cliente[s], res.cliente_id).modo_nuevo]
                /\ nuevo_cliente' = [nuevo_cliente EXCEPT ![s] = FormularioVacio]
           ELSE UNCHANGED <<seleccionado, modo_nuevo, nuevo_cliente>>
    /\ pc' = [pc EXCEPT ![s] = "reposo"]
    /\ UNCHANGED <<varsBusqueda, varsFormulario, verificacion>>

\* "🔄 Cambiar" on the card of the selected customer
Cambiar(s) ==
    /\ pc[s] = "reposo"
    /\ seleccionado[s].id # 0
    /\ ~modo_nuevo[s]
    /\ seleccionado' = [seleccionado EXCEPT ![s] = SinCliente]
    /\ UNCHANGED <<clientes, varsBusqueda, varsFormulario, modo_nuevo, nuevo_cliente, verificacion, pc, alta>>

NextClientes ==
    \E s \in Sesiones :
        \/ Nuevo(s)
        \/ Escribir(s)
        \/ Cancelar(s)
        \/ ClickGuardar(s)
        \/ InsertarCliente(s)
        \/ Cambiar(s)

SpecClientes == InitClientes /\ [][NextClientes]_vars

---------------------------------------------------------------------------
(* The selector of one session: search, selection and customer creation *)

\* what the user has in the search box when a card is clicked
TextosSelector == {<<"1", "2">>, <<"3", "0">>}

\* "✅ Seleccionar" on the card of a result: the rerun repeats the search of the
\* text in the box and the button of one of its cards reports the click
Seleccionar(s) ==
    /\ pc[s] = "reposo"
    /\ vista(seleccionado[s], modo_nuevo[s]) = "busqueda"
    /\ \E texto \in TextosSelector :
       \E res \in {buscar_clientes_db(clientes, texto, NINGUNO, ComercialDe(s),
                                      LimiteSelector, "ninguna", "asc")} :
       \E i \in DOMAIN res.resultados :
           seleccionado' = [seleccionado EXCEPT ![s] = res.resultados[i]]
    /\ UNCHANGED <<clientes, varsBusqueda, varsFormulario, modo_nuevo, nuevo_cliente,
                   verificacion, pc, alta>>

\* the session whose selector the runs follow
SesionesSelector == {"s1"}

NextSelector ==
    \E s \in SesionesSelector :
        \/ Nuevo(s)
        \/ Escribir(s)
        \/ Cancelar(s)
        \/ ClickGuardar(s)
        \/ InsertarCliente(s)
        \/ Cambiar(s)
        \/ Seleccionar(s)

SpecSelector == InitClientes /\ [][NextSelector]_vars

---------------------------------------------------------------------------
(* Properties of the customer creation flow (SpecClientes) *)

\* C1: whenever the duplicate check of the Guardar rerun reported that the
\* CUIT/DNI exists, Guardar is blocked: insertar_cliente_nuevo is not reached
C1_GuardarBloqueado ==
    \A s \in Sesiones : pc[s] = "insertando" => verificacion[s] # "existe"

\* C2: no two active rows of clientes hold the same normalized CUIT/DNI
C2_CuitUnico ==
    \A a \in clientes, b \in clientes :
        (a.id # b.id /\ a.activo /\ b.activo)
            => normalizar_cuit_dni(a.cuit_dni) # normalizar_cuit_dni(b.cuit_dni)

\* an insertar_cliente_nuevo call of session s that met no database error
AltaSinFalla(s) == alta[s].llamado /\ ~alta[s].fallo

\* C3: the insert is a step of its own that does not look at the table: every
\* insertar_cliente_nuevo call that meets no database error commits its row,
\* so when two sessions insert the same CUIT/DNI both rows are stored
C3_AmbasAltasSeGuardan ==
    /\ \A s \in Sesiones :
          AltaSinFalla(s) =>
             \E c \in clientes : c.id = alta[s].cliente_id /\ c.cuit_dni = alta[s].cuit_dni
    /\ \A s \in Sesiones, t \in Sesiones :
          (s # t /\ AltaSinFalla(s) /\ AltaSinFalla(t) /\ alta[s].cuit_dni = alta[t].cuit_dni)
             => /\ alta[s].cliente_id # alta[t].cliente_id
                /\ Cardinality({c \in clientes : c.cuit_dni = alta[s].cuit_dni}) >= 2

\* C3, witness: both sessions' checks found the same CUIT/DNI free and both
\* inserts committed a row with it
C3_CarreraAlcanzada ==
    \E s \in Sesiones, t \in Sesiones :
        /\ s # t
        /\ AltaSinFalla(s) /\ AltaSinFalla(t)
        /\ alta[s].cuit_dni = alta[t].cuit_dni
        /\ verificacion[s] = "libre" /\ verificacion[t] = "libre"
        /\ pc[s] = "reposo" /\ pc[t] = "reposo"
        /\ Cardinality({c \in clientes : c.cuit_dni = alta[s].cuit_dni}) = 2

\* the insertar_cliente_nuevo call of session s happens in this step
PasoAlta(s) == pc[s] = "insertando" /\ pc'[s] = "reposo"

\* the step of session s stores exactly one new row, the one the claim describes
AltaGuardaUnaFila(s) ==
    \E c \in clientes' :
        /\ c \notin clientes
        /\ clientes' = clientes \cup {c}
        /\ c.id = alta'[s].cliente_id
        /\ c.cuit_dni = SelectSeq(nuevo_cliente[s].cuit_dni, EsDigito)
        /\ c.comercial_asignado =
              (IF ComercialDe(s) # NINGUNO THEN {ComercialDe(s)} ELSE {})
        /\ c.activo /\ c.visible_para_todos

\* C11: a successful insertar_cliente_nuevo stores exactly one new row, with the
\* digits-only CUIT/DNI, the comercial (if any) as the only assigned one, active
\* and visible to all; a failed call returns None and stores nothing
C11_AltaCompletaONada ==
    [][\A s \in Sesiones :
          PasoAlta(s) =>
             IF ~alta'[s].fallo
             THEN alta'[s].cliente_id # 0 /\ ~alta'[s].excepcion /\ AltaGuardaUnaFila(s)
             ELSE alta'[s].cliente_id = 0 /\ ~alta'[s].excepcion /\ clientes' = clientes]_vars

\* a digits-only ID of the length its type of customer has
IdValido(tipo, id) ==
    /\ isdigit(id)
    /\ IF tipo = "Paciente" THEN Len(id) \in MinDni..MaxCharsDni ELSE Len(id) = LargoCuit

\* C30: every customer created through the new-customer form stores a non-empty
\* digits-only ID, of 7 or 8 digits for a Paciente and of 11 for a Distribuidor
\* or an Institución, and Guardar is enabled only for input that normalizes to
\* such an ID
C30_IdDeSoloDigitos ==
    /\ \A c \in clientes : IdValido(c.tipo_cliente, c.cuit_dni)
    /\ \A s \in Sesiones :
          (modo_nuevo[s] /\ campos_validos(nuevo_cliente[s]))
             => IdValido(nuevo_cliente[s].tipo_cliente,
                         normalizar_cuit_dni(nuevo_cliente[s].cuit_dni))

---------------------------------------------------------------------------
(* Properties of the selector of one session (SpecSelector) *)

\* new-customer mode and a selection exclude each other, and the component
\* returns the selected customer, or None when none is selected
EstadoCoherente(s) ==
    /\ ~(modo_nuevo[s] /\ seleccionado[s] # SinCliente)
    /\ componente_selector_cliente_inteligente(seleccionado[s], modo_nuevo[s])
          = seleccionado[s]

\* the step is a click on "Cambiar": the selection is dropped
PasoCambiar(s) == seleccionado[s] # SinCliente /\ seleccionado'[s] = SinCliente

\* the step is a click on "Cancelar": the new-customer form is left without an
\* insert
PasoCancelar(s) == pc[s] = "reposo" /\ modo_nuevo[s] /\ ~modo_nuevo'[s]

\* the step is a Guardar whose insert returned an id
PasoGuardado(s) == PasoAlta(s) /\ alta'[s].cliente_id # 0

\* C29: in the selector state of one key_prefix, new-customer mode is never on
\* while a customer is selected and the component returns a customer exactly
\* when one is selected; Cambiar leads to the search view with no selection,
\* Cancelar leaves new-customer mode without selecting, and a successful
\* Guardar leaves the new customer selected with new-customer mode off
C29_EstadoDelSelector ==
    [][\A s \in SesionesSelector :
          /\ EstadoCoherente(s) /\ EstadoCoherente(s)'
          /\ PasoCambiar(s) =>
                vista(seleccionado'[s], modo_nuevo'[s]) = "busqueda"
          /\ PasoCancelar(s) =>
                /\ seleccionado'[s] = SinCliente
                /\ vista(seleccionado'[s], modo_nuevo'[s]) = "busqueda"
          /\ PasoGuardado(s) =>
                /\ seleccionado'[s] = cliente_creado(nuevo_cliente[s], alta'[s].cliente_id)
                /\ \E c \in clientes' \ clientes : c.id = seleccionado'[s].id
                /\ ~modo_nuevo'[s]]_vars

\* C29, witness: the session created a customer with Guardar, dropped the
\* selection with Cambiar and selected a customer from the results of a search,
\* which the component returns
C29_SeleccionadoDeLaBusqueda ==
    \E s \in SesionesSelector :
        /\ alta[s].llamado
        /\ "comercial_asignado" \in DOMAIN seleccionado[s]
        /\ \E c \in clientes : c.id = seleccionado[s].id
        /\ componente_selector_cliente_inteligente(seleccionado[s], modo_nuevo[s])
              = seleccionado[s]

---------------------------------------------------------------------------
(* Properties of the search (SpecBusqueda) *)

\* q occurs in s
Contiene(s, q) ==
    s # NULO /\ \E i \in 0..(Len(s) - Len(q)) : SubSeq(s, i + 1, i + Len(q)) = q

\* s begins with q
EmpiezaCon(s, q) == s # NULO /\ Len(q) <= Len(s) /\ SubSeq(s, 1, Len(q)) = q

RECURSIVE PosicionesTras(_, _, _)
\* the lengths of the prefixes of s that the first k characters of pattern p cover
PosicionesTras(s, p, k) ==
    IF k = 0 THEN {0}
    ELSE LET prev == PosicionesTras(s, p, k - 1)
         IN  IF p[k] = "%" THEN {j \in 0..Len(s) : \E i \in prev : i <= j}
             ELSE {i + 1 : i \in {x \in prev : x < Len(s) /\ (p[k] = "_" \/ s[x + 1] = p[k])}}

\* s matches the LIKE pattern p
CubrePatron(s, p) == s # NULO /\ Len(s) \in PosicionesTras(s, p, Len(p))

SinComodines(t) == \A i \in 1..Len(t) : t[i] \notin {"%", "_"}

\* the row of the table a result or CTE row was read from
FilaDe(id) == CHOOSE c \in clientes : c.id = id

Buscado == llamada.origen # "ninguna" /\ Len(llamada.texto) >= 2 /\ llamada.falla = "ninguna"

Asignado(r) == llamada.comercial # NINGUNO /\ llamada.comercial \in r.comercial_asignado

\* C4: a candidate the comercial is assigned to scores at least 1000 and comes
\* before every returned candidate whose score is below 1000
C4_AsignadoPrimero ==
    Buscado =>
        /\ \A r \in relevantes : Asignado(r) => r.relevancia_score >= 1000
        /\ \A i \in 1..Len(resultados), j \in 1..Len(resultados) :
              (Asignado(resultados[i]) /\ resultados[j].relevancia_score < 1000) => i < j

\* C4, witness: an assigned candidate is returned before an unassigned one whose
\* CUIT/DNI is the text searched
C4_AsignadoAntesDeMejorTexto ==
    /\ Buscado
    /\ \E i \in 1..Len(resultados), j \in 1..Len(resultados) :
          /\ i < j
          /\ Asignado(resultados[i])
          /\ resultados[i].cuit_dni # normalizar_cuit_dni(llamada.texto)
          /\ ~Asignado(resultados[j])
          /\ resultados[j].relevancia_score < 1000
          /\ resultados[j].cuit_dni = normalizar_cuit_dni(llamada.texto)

\* the CUIT/DNI term the claim gives a candidate with CUIT/DNI cuit
PuntosCuitEsperados(cuit, texto_normalizado) ==
    IF cuit # NULO /\ cuit = texto_normalizado THEN 300
    ELSE IF Contiene(cuit, texto_normalizado) THEN 200
    ELSE 0

\* C5: the CUIT/DNI term of every candidate is 300 for a CUIT/DNI equal to the
\* normalized text, 200 for one that is not equal but contains it, 0 otherwise,
\* and the score holds that term once
C5_PuntosCuit ==
    Buscado =>
        \A r \in relevantes :
            /\ r.puntos_cuit = PuntosCuitEsperados(r.cuit_dni, normalizar_cuit_dni(llamada.texto))
            /\ r.relevancia_score =
                  r.puntos_comercial + r.puntos_visible + r.puntos_cuit + r.puntos_nombre

\* C5, witness: one search gives 300 to a CUIT/DNI equal to the digits typed
\* and 200 to one that only contains them
C5_IgualYContenido ==
    /\ Buscado
    /\ normalizar_cuit_dni(llamada.texto) # <<>>
    /\ \E a \in relevantes, b \in relevantes :
          /\ a.puntos_cuit = 300 /\ a.cuit_dni = normalizar_cuit_dni(llamada.texto)
          /\ b.puntos_cuit = 200 /\ b.cuit_dni # normalizar_cuit_dni(llamada.texto)

\* the name term as the claim states it: 250 for a display name that starts
\* with the text
PuntosNombreSegunSpec(c, texto) ==
    IF EmpiezaCon(Minusculas(nombre_display(c)), Minusculas(texto)) THEN 250
    ELSE IF EmpiezaCon(Minusculas(c.busqueda_texto), Minusculas(texto)) THEN 150
    ELSE IF Contiene(Minusculas(c.busqueda_texto), Minusculas(texto)) THEN 100
    ELSE 0

\* C6 as stated: 250 when the display name starts with the text, else 150 when
\* busqueda_texto starts with it, else 100 when busqueda_texto contains it
\* (read on the texts without % or _, where LIKE compares literally)
C6_NombreEmpiezaCon ==
    (Buscado /\ SinComodines(llamada.texto)) =>
        \A r \in relevantes : r.puntos_nombre = PuntosNombreSegunSpec(FilaDe(r.id), llamada.texto)

\* the first non-NULL of nombre_fantasia, nombre_apellido, razon_social
PrimerNombre(c) ==
    IF c.nombre_fantasia # NULO THEN c.nombre_fantasia
    ELSE IF c.nombre_apellido # NULO THEN c.nombre_apellido
    ELSE c.razon_social

\* the name term read as LIKE patterns
PuntosNombrePatron(c, texto) ==
    IF CubrePatron(Minusculas(PrimerNombre(c)), Minusculas(texto)) THEN 250
    ELSE IF CubrePatron(Minusculas(c.busqueda_texto), Minusculas(texto) \o <<"%">>) THEN 150
    ELSE IF CubrePatron(Minusculas(c.busqueda_texto),
                        <<"%">> \o Minusculas(texto) \o <<"%">>) THEN 100
    ELSE 0

\* the name term for a text without % or _
PuntosNombreLiteral(c, texto) ==
    IF PrimerNombre(c) # NULO /\ Minusculas(PrimerNombre(c)) = Minusculas(texto) THEN 250
    ELSE IF EmpiezaCon(Minusculas(c.busqueda_texto), Minusculas(texto)) THEN 150
    ELSE IF Contiene(Minusculas(c.busqueda_texto), Minusculas(texto)) THEN 100
    ELSE 0

\* C6 amended: 250 when the first non-NULL of nombre_fantasia, nombre_apellido,
\* razon_social matches the text as a case-insensitive LIKE pattern (equals it,
\* for a text without % or _), else 150 when busqueda_texto matches text%, else
\* 100 when busqueda_texto matches %text%, else 0
C6_NombreExacto ==
    Buscado =>
        \A r \in relevantes :
            /\ r.puntos_nombre = PuntosNombrePatron(FilaDe(r.id), llamada.texto)
            /\ SinComodines(llamada.texto)
                  => r.puntos_nombre = PuntosNombreLiteral(FilaDe(r.id), llamada.texto)

\* C6, witness: one search gives 250 to a name equal to the text but for its
\* case, and 150 to a candidate whose display name only starts with the text
C6_ExactoYPrefijo ==
    /\ Buscado
    /\ SinComodines(llamada.texto)
    /\ \E a \in relevantes, b \in relevantes :
          /\ a.puntos_nombre = 250
          /\ a.nombre_display # llamada.texto
          /\ b.puntos_nombre = 150
          /\ EmpiezaCon(Minusculas(b.nombre_display), Minusculas(llamada.texto))

\* the four conditions of C7 for a row of the table
CumpleCondiciones(c) ==
    /\ c.activo = TRUE
    /\ \/ Contiene(Minusculas(c.busqueda_texto), Minusculas(llamada.texto))
       \/ Contiene(Minusculas(c.cuit_dni), Minusculas(llamada.texto))
    /\ (llamada.tipo_cliente = NINGUNO \/ c.tipo_cliente = llamada.tipo_cliente)
    /\ fila_relevante(c, llamada.texto, llamada.comercial).relevancia_score > 0

\* C7: a customer is returned only if it is active, its busqueda_texto or its
\* cuit_dni contains the text, its type equals the filter when one is given and
\* its score is above 0; every customer meeting the four conditions is a candidate
C7_SoloCoincidencias ==
    Buscado =>
        /\ \A i \in 1..Len(resultados) : CumpleCondiciones(FilaDe(resultados[i].id))
        /\ \A c \in clientes :
              CumpleCondiciones(c) =>
                 \E r \in relevantes : r.id = c.id /\ r.relevancia_score > 0

\* r1 ranks before r2: a higher score, or the same score and an earlier name
RankingAntes(r1, r2) ==
    \/ r1.relevancia_score > r2.relevancia_score
    \/ /\ r1.relevancia_score = r2.relevancia_score
       /\ r1.nombre_display # NULO
       /\ (r2.nombre_display = NULO \/ TextoMenor(r1.nombre_display, r2.nombre_display))

Candidatos == {r \in relevantes : r.relevancia_score > 0}

Devueltos == {resultados[i].id : i \in 1..Len(resultados)}

\* C8: the list is in score-descending, name-ascending order, holds at most
\* limite rows, and these are the first rows of that order
C8_OrdenYLimite ==
    Buscado =>
        /\ Len(resultados) = Min2(llamada.limite, Cardinality(Candidatos))
        /\ Cardinality(Devueltos) = Len(resultados)
        /\ \A i \in 1..Len(resultados) :
              \E r \in Candidatos : fila_resultado(r) = resultados[i]
        /\ \A i \in 1..Len(resultados), j \in 1..Len(resultados) :
              i < j => ~RankingAntes(resultados[j], resultados[i])
        /\ \A r \in Candidatos :
              r.id \notin Devueltos =>
                 \A i \in 1..Len(resultados) : ~RankingAntes(r, resultados[i])

\* C8, witness: limite cut the list, and the candidate left out has the score of
\* the last one returned and a later name
C8_CorteConEmpate ==
    /\ Buscado
    /\ Len(resultados) = llamada.limite
    /\ \E r \in Candidatos :
          /\ r.id \notin Devueltos
          /\ r.relevancia_score = resultados[Len(resultados)].relevancia_score
          /\ RankingAntes(resultados[Len(resultados)], r)

\* C9: a call with a text shorter than 2 characters returns the empty list and
\* opens no database connection
C9_ConsultaCortaSinConexion ==
    (llamada.origen = "funcion" /\ Len(llamada.texto) < 2)
        => (resultados = <<>> /\ conexiones = 0 /\ mensajes = {} /\ ~excepcion)

\* C9, witness: a one-character text that the table's rows contain, with the
\* database in any condition
C9_UnCaracter ==
    /\ llamada.origen = "funcion"
    /\ Len(llamada.texto) = 1
    /\ \E c \in clientes : c.activo /\ Contiene(c.busqueda_texto, llamada.texto)

\* C10: when the connection or the query fails, the call shows an error, returns
\* the empty list and raises nothing, and the selector shows what it shows for a
\* search without matches
C10_FallaComoSinResultados ==
    (llamada.origen # "ninguna" /\ Len(llamada.texto) >= 2 /\ llamada.falla # "ninguna")
        => /\ resultados = <<>>
           /\ ~excepcion
           /\ "error_busqueda" \in mensajes
           /\ llamada.origen = "selector"
                 => mensajes \ {"error_busqueda"} = {"sin_resultados", "sugerir_nuevo"}

\* C10, witness: the selector's search fails on a table holding rows the text
\* matches
C10_FallaConCoincidencias ==
    /\ llamada.origen = "selector"
    /\ llamada.falla # "ninguna"
    /\ \E c \in clientes : filtro_where(c, llamada.texto, llamada.tipo_cliente)
    /\ "sin_resultados" \in mensajes

\* the results of a list, as a set
Listados(lista) == {lista[i] : i \in DOMAIN lista}

\* C28: in the selector a result is listed under "Tus clientes asignados"
\* exactly when the comercial of the selector is among its comercial_asignado,
\* and every other result is listed under "Otros clientes"
C28_AsignadosSegunComercial ==
    llamada.origen = "selector" =>
        \A r \in Listados(resultados) :
            /\ r \in Listados(clientes_prioritarios(resultados)) <=> Asignado(r)
            /\ r \in Listados(clientes_comunes(resultados)) <=> ~Asignado(r)

---------------------------------------------------------------------------
(***************************************************************************)
(* formulario_ST_V13.py: the service-request form.                         *)
(*                                                                         *)
(* The values of select boxes are strings; the values of text inputs are   *)
(* sequences of one-character strings.  A key the form never set reads as  *)
(* the empty value of its kind, which is all that "not data.get(...)" and  *)
(* data.get(..., '') tell apart.                                           *)
(***************************************************************************)

\* the options of the select boxes (the placeholder and some of the entries)
TIPOS_EQUIPO == {"Seleccionar tipo...", "CPAP", "Respirador"}

MARCAS_EQUIPO == {"Seleccionar marca...", "Philips"}

MODELOS_EQUIPO == {"Seleccionar modelo...", "Trilogy"}

COMERCIALES == {"Seleccionar comercial...", "Ariel"}

SOLICITANTES_INTERNOS == {"Seleccionar solicitante...", "Clara"}

ServicioTecnico == "Servicio Técnico (reparaciones de equipos en general)"

ServicioPostVenta == "Servicio Post Venta (para alguno de nuestros productos adquiridos)"

FallaCritica == "Cambio por falla de funcionamiento crítica"

\* the options of "Motivo de la solicitud"
MOTIVOS == {"", ServicioTecnico, ServicioPostVenta, "Baja de Alquiler", "Cambio de Alquiler",
            FallaCritica}

\* the options of "¿Quién está completando la solicitud?"
QUIEN_COMPLETA == {"", "Colaborador de Syemed", "Distribuidor", "Institución",
                   "Paciente/Particular"}

\* the options of "El equipo corresponde a:"
EQUIPO_CORRESPONDE_A == {"", "Paciente/Particular", "Distribuidor", "Institución",
                         "Equipo de Stock", "Baja de demo"}

\* str.isspace for the characters of the model
EsEspacio(ch) == ch = " "

RECURSIVE lstrip(_)
lstrip(t) == IF t # <<>> /\ EsEspacio(Head(t)) THEN lstrip(Tail(t)) ELSE t

RECURSIVE rstrip(_)
rstrip(t) ==
    IF t # <<>> /\ EsEspacio(t[Len(t)]) THEN rstrip(SubSeq(t, 1, Len(t) - 1)) ELSE t

\* str.strip
strip(t) == rstrip(lstrip(t))

\* one entry of data['equipos']
Equipo(tipo, marca, modelo, serie, fotos) ==
    [tipo_equipo |-> tipo, marca |-> marca, modelo |-> modelo, numero_serie |-> serie,
     fotos_fallas |-> fotos]

\* the dictionary "data" before any section has filled it
DataVacio ==
    [email |-> <<>>, quien_completa |-> "", area_solicitante |-> "", solicitante |-> "",
     equipo_corresponde_a |-> "", nombre_fantasia |-> <<>>, razon_social |-> <<>>,
     cuit |-> <<>>, contacto_nombre |-> <<>>, contacto_telefono |-> <<>>,
     comercial_syemed |-> "", contacto_tecnico |-> "", motivo_solicitud |-> "",
     nombre_apellido_paciente |-> <<>>, telefono_paciente |-> <<>>, equipo_origen |-> "",
     motivo_cambio_alquiler |-> <<>>, detalle_fallo |-> <<>>, fallas_problemas |-> <<>>,
     nivel_urgencia |-> "", logistica_cargo |-> "",
     equipos |-> <<>>, facturas |-> <<>>, archivos_urls |-> <<>>]

---------------------------------------------------------------------------
(* validar_campos_obligatorios *)

\* an entry of the list "errores"; equipo is the {i} of the message, 0 if none
Error(texto) == [texto |-> texto, equipo |-> 0]

ErrorEquipo(texto, i) == [texto |-> texto, equipo |-> i]

\* if <condition>: errores.append(<message>)
Si(condicion, texto) == IF condicion THEN <<Error(texto)>> ELSE <<>>

\* "Validaciones comunes"
errores_comunes(d) ==
    Si(d.email = <<>>, "El correo electrónico es obligatorio")
    \o Si(d.quien_completa = "", "Debe indicar quién completa la solicitud")

\* the branch of "Colaborador de Syemed"
errores_colaborador(d) ==
    Si(d.area_solicitante = "", "Área Solicitante es obligatorio")
    \o Si(d.solicitante = "" \/ d.solicitante = "Seleccionar solicitante...",
          "Solicitante es obligatorio")
    \o Si(d.equipo_corresponde_a = "", "'El equipo corresponde a' es obligatorio")
    \o (IF d.equipo_corresponde_a = "Distribuidor"
        THEN Si(d.nombre_fantasia = <<>>, "Nombre de Fantasía (Distribuidor) es obligatorio")
             \o Si(d.razon_social = <<>>, "Razón Social (Distribuidor) es obligatorio")
             \o Si(d.cuit = <<>>, "CUIT (Distribuidor) es obligatorio")
             \o Si(d.contacto_nombre = <<>>, "Nombre de contacto (Distribuidor) es obligatorio")
             \o Si(d.contacto_telefono = <<>>,
                   "Teléfono de contacto (Distribuidor) es obligatorio")
             \o Si(d.contacto_tecnico = "",
                   "Debe indicar si quiere contacto técnico (Distribuidor)")
             \o Si(d.motivo_solicitud = "",
                   "Motivo de la solicitud (Distribuidor) es obligatorio")
        ELSE IF d.equipo_corresponde_a = "Institución"
        THEN Si(d.nombre_fantasia = <<>>,
                "Nombre del Hospital/Clínica (Institución) es obligatorio")
             \o Si(d.razon_social = <<>>, "Razón Social (Institución) es obligatorio")
             \o Si(d.contacto_nombre = <<>>, "Nombre de contacto (Institución) es obligatorio")
             \o Si(d.contacto_telefono = <<>>,
                   "Teléfono de contacto (Institución) es obligatorio")
             \o Si(d.contacto_tecnico = "",
                   "Debe indicar si quiere contacto técnico (Institución)")
             \o Si(d.motivo_solicitud = "",
                   "Motivo de la solicitud (Institución) es obligatorio")
        ELSE IF d.equipo_corresponde_a = "Paciente/Particular"
        THEN Si(d.nombre_apellido_paciente = <<>>,
                "Nombre y Apellido (Paciente) es obligatorio")
             \o Si(d.telefono_paciente = <<>>, "Teléfono (Paciente) es obligatorio")
             \o Si(d.equipo_origen = "", "Origen del equipo (Paciente) es obligatorio")
             \o Si(d.motivo_solicitud = "", "Motivo de la solicitud (Paciente) es obligatorio")
        ELSE <<>>)

\* the branch of a direct "Distribuidor"
errores_distribuidor(d) ==
    Si(d.nombre_fantasia = <<>>, "Nombre de Fantasía es obligatorio")
    \o Si(d.razon_social = <<>>, "Razón Social es obligatorio")
    \o Si(d.cuit = <<>>, "CUIT es obligatorio")
    \o Si(d.contacto_nombre = <<>>, "Nombre de contacto es obligatorio")
    \o Si(d.contacto_telefono = <<>>, "Teléfono de contacto es obligatorio")
    \o Si(d.comercial_syemed = "" \/ d.comercial_syemed = "Seleccionar comercial...",
          "Comercial de contacto en Syemed es obligatorio")
    \o Si(d.contacto_tecnico = "", "Debe indicar si quiere contacto técnico")
    \o Si(d.motivo_solicitud = "", "Motivo de la solicitud es obligatorio")

\* the branch of a direct "Institución"
errores_institucion(d) ==
    Si(d.nombre_fantasia = <<>>, "Nombre del Hospital/Clínica/Sanatorio es obligatorio")
    \o Si(d.razon_social = <<>>, "Razón Social es obligatorio")
    \o Si(d.contacto_nombre = <<>>, "Nombre de contacto es obligatorio")
    \o Si(d.contacto_telefono = <<>>, "Teléfono de contacto es obligatorio")
    \o Si(d.comercial_syemed = "" \/ d.comercial_syemed = "Seleccionar comercial...",
          "Comercial de contacto en Syemed es obligatorio")
    \o Si(d.contacto_tecnico = "", "Debe indicar si quiere contacto técnico")
    \o Si(d.motivo_solicitud = "", "Motivo de la solicitud es obligatorio")

\* the branch of a direct "Paciente/Particular"
errores_paciente(d) ==
    Si(d.nombre_apellido_paciente = <<>>, "Nombre y Apellido es obligatorio")
    \o Si(d.telefono_paciente = <<>>, "Teléfono de contacto es obligatorio")
    \o Si(d.equipo_origen = "", "Origen del equipo es obligatorio")
    \o Si(d.motivo_solicitud = "", "Motivo de la solicitud es obligatorio")

\* the if / elif chain on quien_completa
errores_solicitante(d) ==
    IF d.quien_completa = "Colaborador de Syemed" THEN errores_colaborador(d)
    ELSE IF d.quien_completa = "Distribuidor" THEN errores_distribuidor(d)
    ELSE IF d.quien_completa = "Institución" THEN errores_institucion(d)
    ELSE IF d.quien_completa = "Paciente/Particular" THEN errores_paciente(d)
    ELSE <<>>

\* mutant of errores_motivo: the detail is not stripped, so a blank detail counts
errores_motivo_sin_strip(d) ==
    IF d.motivo_solicitud = "Cambio de Alquiler"
    THEN Si(strip(d.motivo_cambio_alquiler) = <<>>,
            "Debe especificar el motivo del cambio de alquiler")
    ELSE IF d.motivo_solicitud = FallaCritica
    THEN Si(strip(d.detalle_fallo) = <<>>,
            "Debe describir la falla crítica que justifica el cambio")
    ELSE IF d.motivo_solicitud \in {ServicioTecnico, ServicioPostVenta}
    THEN Si(d.fallas_problemas = <<>> /\ d.detalle_fallo = <<>>,
            "Debe seleccionar al menos una opción o especificar en 'Otros' el motivo de su solicitud")
    ELSE <<>>

\* "Validaciones según motivo de solicitud"
errores_motivo(d) ==
    IF d.motivo_solicitud = "Cambio de Alquiler"
    THEN Si(strip(d.motivo_cambio_alquiler) = <<>>,
            "Debe especificar el motivo del cambio de alquiler")
    ELSE IF d.motivo_solicitud = FallaCritica
    THEN Si(strip(d.detalle_fallo) = <<>>,
            "Debe describir la falla crítica que justifica el cambio")
    ELSE IF d.motivo_solicitud \in {ServicioTecnico, ServicioPostVenta}
    THEN Si(d.fallas_problemas = <<>> /\ strip(d.detalle_fallo) = <<>>,
            "Debe seleccionar al menos una opción o especificar en 'Otros' el motivo de su solicitud")
    ELSE <<>>

\* eq.get('tipo_equipo') and eq.get('tipo_equipo') != "Seleccionar tipo..."
tipo_valido(eq) == eq.tipo_equipo # "" /\ eq.tipo_equipo # "Seleccionar tipo..."

\* the list comprehension equipos_validos of the validator
equipos_validos(d) == SelectSeq(d.equipos, tipo_valido)

\* the three checks of the entry at position i of equipos_validos
errores_de_equipo(equipo, i) ==
    (IF equipo.marca = "" \/ equipo.marca = "Seleccionar marca..."
     THEN <<ErrorEquipo("La marca del equipo {i} es obligatoria", i)>> ELSE <<>>)
    \o (IF equipo.modelo = "" \/ equipo.modelo = "Seleccionar modelo..."
        THEN <<ErrorEquipo("El modelo del equipo {i} es obligatorio", i)>> ELSE <<>>)
    \o (IF equipo.numero_serie = <<>>
        THEN <<ErrorEquipo("El número de serie del equipo {i} es obligatorio", i)>> ELSE <<>>)

RECURSIVE errores_equipos_desde(_, _)
\* for i, equipo in enumerate(equipos_validos, 1), from position i on
errores_equipos_desde(validos, i) ==
    IF i > Len(validos) THEN <<>>
    ELSE errores_de_equipo(validos[i], i) \o errores_equipos_desde(validos, i + 1)

\* mutant of errores_equipos: the count error is only added to an empty list
errores_equipos_si_vacia(d) ==
    IF equipos_validos(d) = <<>>
    THEN Si(d.equipos = <<>>, "Debe registrar al menos un equipo")
    ELSE errores_equipos_desde(equipos_validos(d), 1)

\* "Validaciones de equipos"
errores_equipos(d) ==
    IF equipos_validos(d) = <<>>
    THEN <<Error("Debe registrar al menos un equipo")>>
    ELSE errores_equipos_desde(equipos_validos(d), 1)

\* mutant of lista_errores: the validator stops at the first group with errors
lista_errores_primera(d) ==
    IF errores_comunes(d) # <<>> THEN errores_comunes(d)
    ELSE IF errores_solicitante(d) # <<>> THEN errores_solicitante(d)
    ELSE IF errores_motivo(d) # <<>> THEN errores_motivo(d)
    ELSE errores_equipos(d)

\* the list "errores" at the return statement
lista_errores(d) ==
    errores_comunes(d) \o errores_solicitante(d) \o errores_motivo(d) \o errores_equipos(d)

\* return len(errores) == 0, errores
validar_campos_obligatorios(d) ==
    [es_valido |-> Len(lista_errores(d)) = 0, errores |-> lista_errores(d)]

---------------------------------------------------------------------------
(* The submissions handed to validar_campos_obligatorios *)

\* most required fields left empty in one submission
MaxFaltantes == 2

\* most entries of data['equipos']
MaxEquipos == 2

\* the fields that can be left empty; "_ph" leaves the placeholder selected
Defectos ==
    {"email", "area_solicitante", "solicitante", "solicitante_ph", "nombre_fantasia",
     "razon_social", "cuit", "contacto_nombre", "contacto_telefono", "comercial_syemed",
     "comercial_ph", "contacto_tecnico", "nombre_apellido_paciente", "telefono_paciente",
     "equipo_origen"}

Faltantes == {F \in SUBSET Defectos : Cardinality(F) <= MaxFaltantes}

\* the fields that mostrar_seccion_distribuidor / mostrar_seccion_institucion
\* put into data (directo: with the comercial of Syemed)
seccion_empresa(d, directo) ==
    [d EXCEPT !.nombre_fantasia = <<"x">>, !.razon_social = <<"x">>, !.cuit = <<"3">>,
              !.contacto_nombre = <<"x">>, !.contacto_telefono = <<"3">>,
              !.comercial_syemed = IF directo THEN "Ariel" ELSE "",
              !.contacto_tecnico = "No"]

\* the fields that mostrar_seccion_paciente puts into data
seccion_paciente(d) ==
    [d EXCEPT !.nombre_apellido_paciente = <<"x">>, !.telefono_paciente = <<"3">>,
              !.equipo_origen = "Lo compró de manera directa"]

\* the "Colaboradores de Syemed" section and the section of the equipment owner;
\* the value of the urgency slider is written as its text
seccion_colaborador(d, corresponde) ==
    LET c == [d EXCEPT !.area_solicitante = "Comercial", !.solicitante = "Clara",
                       !.nivel_urgencia = "3",
                       !.logistica_cargo = "Ida a cargo de Cliente",
                       !.equipo_corresponde_a = corresponde]
    IN  IF corresponde \in {"Distribuidor", "Institución"} THEN seccion_empresa(c, FALSE)
        ELSE IF corresponde = "Paciente/Particular" THEN seccion_paciente(c)
        ELSE IF corresponde \in {"Equipo de Stock", "Baja de demo"}
        THEN [c EXCEPT !.motivo_solicitud = corresponde]
        ELSE c

\* a form with every field of its sections filled in
formulario_completo(quien, corresponde) ==
    LET d == [DataVacio EXCEPT !.email = <<"u", "@", "d", ".", "c", "o">>,
                               !.quien_completa = quien]
    IN  IF quien = "Colaborador de Syemed" THEN seccion_colaborador(d, corresponde)
        ELSE IF quien \in {"Distribuidor", "Institución"} THEN seccion_empresa(d, TRUE)
        ELSE IF quien = "Paciente/Particular" THEN seccion_paciente(d)
        ELSE d

\* who fills the form, and for a Colaborador whose equipment it is
Solicitantes ==
    {<<q, "">> : q \in QUIEN_COMPLETA \ {"Colaborador de Syemed"}}
    \cup {<<"Colaborador de Syemed", c>> : c \in EQUIPO_CORRESPONDE_A}

\* what a user leaves in a text area: nothing, a blank, a text
TextosDetalle == {<<>>, <<" ">>, <<"x">>}

\* the reason and the inputs the form shows for it: the reason of the change for
\* "Cambio de Alquiler", the tags and the detail for the service reasons, the
\* detail alone for a critical failure
Motivaciones ==
    {[motivo_solicitud |-> m, motivo_cambio_alquiler |-> <<>>, detalle_fallo |-> <<>>,
      fallas_problemas |-> <<>>] : m \in {"", "Baja de Alquiler"}}
    \cup {[motivo_solicitud |-> "Cambio de Alquiler", motivo_cambio_alquiler |-> t,
           detalle_fallo |-> <<>>, fallas_problemas |-> <<>>] : t \in TextosDetalle}
    \cup {[motivo_solicitud |-> FallaCritica, motivo_cambio_alquiler |-> <<>>,
           detalle_fallo |-> t, fallas_problemas |-> <<>>] : t \in TextosDetalle}
    \cup {[motivo_solicitud |-> m, motivo_cambio_alquiler |-> <<>>, detalle_fallo |-> t,
           fallas_problemas |-> f] :
             m \in {ServicioTecnico, ServicioPostVenta}, t \in TextosDetalle,
             f \in {<<>>, <<"No enciende">>}}

\* the reason of the form; "Equipo de Stock" and "Baja de demo" keep their own
con_motivo(d, m) ==
    IF d.equipo_corresponde_a \in {"Equipo de Stock", "Baja de demo"} THEN d
    ELSE [d EXCEPT !.motivo_solicitud = m.motivo_solicitud,
                   !.motivo_cambio_alquiler = m.motivo_cambio_alquiler,
                   !.detalle_fallo = m.detalle_fallo,
                   !.fallas_problemas = m.fallas_problemas]

\* the user leaves the fields of F empty
sin_campos(d, F) ==
    [d EXCEPT
       !.email = IF "email" \in F THEN <<>> ELSE @,
       !.area_solicitante = IF "area_solicitante" \in F THEN "" ELSE @,
       !.solicitante = IF "solicitante" \in F THEN ""
                       ELSE IF "solicitante_ph" \in F /\ @ # ""
                       THEN "Seleccionar solicitante..." ELSE @,
       !.nombre_fantasia = IF "nombre_fantasia" \in F THEN <<>> ELSE @,
       !.razon_social = IF "razon_social" \in F THEN <<>> ELSE @,
       !.cuit = IF "cuit" \in F THEN <<>> ELSE @,
       !.contacto_nombre = IF "contacto_nombre" \in F THEN <<>> ELSE @,
       !.contacto_telefono = IF "contacto_telefono" \in F THEN <<>> ELSE @,
       !.comercial_syemed = IF "comercial_syemed" \in F THEN ""
                            ELSE IF "comercial_ph" \in F /\ @ # ""
                            THEN "Seleccionar comercial..." ELSE @,
       !.contacto_tecnico = IF "contacto_tecnico" \in F THEN "" ELSE @,
       !.nombre_apellido_paciente = IF "nombre_apellido_paciente" \in F THEN <<>> ELSE @,
       !.telefono_paciente = IF "telefono_paciente" \in F THEN <<>> ELSE @,
       !.equipo_origen = IF "equipo_origen" \in F THEN "" ELSE @]

\* an entry with everything selected
EquipoCompleto == Equipo("CPAP", "Philips", "Trilogy", <<"s">>, <<>>)

\* the entries of the equipment section: every combination of a type (none, the
\* placeholder, a type), a brand, a model and a serial number
EntradasEquipo ==
    {Equipo(tipo, marca, modelo, serie, <<>>) :
        tipo \in {"", "Seleccionar tipo...", "CPAP"}, marca \in MARCAS_EQUIPO,
        modelo \in MODELOS_EQUIPO, serie \in {<<>>, <<"s">>}}

ListasEquipos == UNION {[1..n -> EntradasEquipo] : n \in 0..MaxEquipos}

\* a submission: the form of a requester with a reason, some fields left empty
\* and a list of equipment
Envio(qc, m, F, eqs) ==
    [con_motivo(sin_campos(formulario_completo(qc[1], qc[2]), F), m) EXCEPT !.equipos = eqs]

\* the submissions of the runs: every requester, reason and set of empty fields
\* with no equipment or one complete entry, and every equipment list with some
\* requesters and reasons
EsEnvio(d) ==
    \/ \E qc \in Solicitantes, m \in Motivaciones, F \in Faltantes,
          eqs \in {<<>>, <<EquipoCompleto>>} :
            d = Envio(qc, m, F, eqs)
    \/ \E qc \in {<<"Distribuidor", "">>, <<"Colaborador de Syemed", "Paciente/Particular">>},
          m \in {x \in Motivaciones : x.motivo_solicitud = ServicioTecnico
                                      /\ x.fallas_problemas = <<>>},
          F \in {{}, {"telefono_paciente", "cuit"}},
          eqs \in ListasEquipos :
            d = Envio(qc, m, F, eqs)

SinValidar == [hecha |-> FALSE]

InitValidacion ==
    /\ EsEnvio(data)
    /\ validacion = SinValidar
    /\ clientes = {}
    /\ llamada = SinLlamada
    /\ relevantes = {}
    /\ resultados = <<>>
    /\ conexiones = 0
    /\ mensajes = {}
    /\ excepcion = FALSE
    /\ InitSesion
    /\ InitEnvio
    /\ entorno = "con_fallas"

\* campos_validos, errores_validacion = validar_campos_obligatorios(data)
Validar ==
    /\ ~validacion.hecha
    /\ \E res \in {validar_campos_obligatorios(data)} :
        validacion' = [hecha |-> TRUE, es_valido |-> res.es_valido, errores |-> res.errores]
    /\ UNCHANGED <<varsComponente, data, varsEnvio, entorno>>

NextValidacion == Validar

SpecValidacion == InitValidacion /\ [][NextValidacion]_vars

---------------------------------------------------------------------------
(* Properties of the validator (SpecValidacion) *)

\* the entries of a list
Elementos(lista) == {lista[i] : i \in 1..Len(lista)}

\* how many entries of the list of errors carry this text
Veces(errores, texto) == Cardinality({i \in 1..Len(errores) : errores[i].texto = texto})

\* the error of a rule that is violated
Regla(violada, texto) == IF violada THEN {texto} ELSE {}

\* a select box left on nothing or on its placeholder
SinElegir(valor) == valor = "" \/ valor \in {"Seleccionar solicitante...", "Seleccionar comercial...",
                                            "Seleccionar marca...", "Seleccionar modelo..."}

\* a text that is empty or made of blanks
EnBlanco(t) == \A i \in 1..Len(t) : t[i] = " "

\* the requester whose category rules apply: the requester, or the owner of the
\* equipment when a Colaborador fills the form
Categoria(d) ==
    IF d.quien_completa = "Colaborador de Syemed" THEN d.equipo_corresponde_a
    ELSE d.quien_completa

\* the suffix that the messages of a Colaborador carry
ReglasEmpresa(d, fantasia, razon, nombre, telefono, tecnico, motivo) ==
    Regla(Len(d.nombre_fantasia) = 0, fantasia)
    \cup Regla(Len(d.razon_social) = 0, razon)
    \cup Regla(Len(d.contacto_nombre) = 0, nombre)
    \cup Regla(Len(d.contacto_telefono) = 0, telefono)
    \cup Regla(d.contacto_tecnico = "", tecnico)
    \cup Regla(d.motivo_solicitud = "", motivo)

\* the texts of the errors of the common, category and reason rules that the
\* submission violates
ReglasVioladas(d) ==
    Regla(Len(d.email) = 0, "El correo electrónico es obligatorio")
    \cup Regla(d.quien_completa = "", "Debe indicar quién completa la solicitud")
    \cup (IF d.quien_completa # "Colaborador de Syemed" THEN {}
          ELSE Regla(d.area_solicitante = "", "Área Solicitante es obligatorio")
               \cup Regla(SinElegir(d.solicitante), "Solicitante es obligatorio")
               \cup Regla(d.equipo_corresponde_a = "",
                          "'El equipo corresponde a' es obligatorio")
               \cup (IF Categoria(d) = "Distribuidor"
                     THEN ReglasEmpresa(d, "Nombre de Fantasía (Distribuidor) es obligatorio",
                                        "Razón Social (Distribuidor) es obligatorio",
                                        "Nombre de contacto (Distribuidor) es obligatorio",
                                        "Teléfono de contacto (Distribuidor) es obligatorio",
                                        "Debe indicar si quiere contacto técnico (Distribuidor)",
                                        "Motivo de la solicitud (Distribuidor) es obligatorio")
                          \cup Regla(Len(d.cuit) = 0, "CUIT (Distribuidor) es obligatorio")
                     ELSE {})
               \cup (IF Categoria(d) = "Institución"
                     THEN ReglasEmpresa(d, "Nombre del Hospital/Clínica (Institución) es obligatorio",
                                        "Razón Social (Institución) es obligatorio",
                                        "Nombre de contacto (Institución) es obligatorio",
                                        "Teléfono de contacto (Institución) es obligatorio",
                                        "Debe indicar si quiere contacto técnico (Institución)",
                                        "Motivo de la solicitud (Institución) es obligatorio")
                     ELSE {})
               \cup (IF Categoria(d) = "Paciente/Particular"
                     THEN Regla(Len(d.nombre_apellido_paciente) = 0,
                                "Nombre y Apellido (Paciente) es obligatorio")
                          \cup Regla(Len(d.telefono_paciente) = 0,
                                     "Teléfono (Paciente) es obligatorio")
                          \cup Regla(d.equipo_origen = "",
                                     "Origen del equipo (Paciente) es obligatorio")
                          \cup Regla(d.motivo_solicitud = "",
                                     "Motivo de la solicitud (Paciente) es obligatorio")
                     ELSE {}))
    \cup (IF d.quien_completa = "Distribuidor"
          THEN ReglasEmpresa(d, "Nombre de Fantasía es obligatorio",
                             "Razón Social es obligatorio", "Nombre de contacto es obligatorio",
                             "Teléfono de contacto es obligatorio",
                             "Debe indicar si quiere contacto técnico",
                             "Motivo de la solicitud es obligatorio")
               \cup Regla(Len(d.cuit) = 0, "CUIT es obligatorio")
               \cup Regla(SinElegir(d.comercial_syemed),
                          "Comercial de contacto en Syemed es obligatorio")
          ELSE {})
    \cup (IF d.quien_completa = "Institución"
          THEN ReglasEmpresa(d, "Nombre del Hospital/Clínica/Sanatorio es obligatorio",
                             "Razón Social es obligatorio", "Nombre de contacto es obligatorio",
                             "Teléfono de contacto es obligatorio",
                             "Debe indicar si quiere contacto técnico",
                             "Motivo de la solicitud es obligatorio")
               \cup Regla(SinElegir(d.comercial_syemed),
                          "Comercial de contacto en Syemed es obligatorio")
          ELSE {})
    \cup (IF d.quien_completa = "Paciente/Particular"
          THEN Regla(Len(d.nombre_apellido_paciente) = 0, "Nombre y Apellido es obligatorio")
               \cup Regla(Len(d.telefono_paciente) = 0, "Teléfono de contacto es obligatorio")
               \cup Regla(d.equipo_origen = "", "Origen del equipo es obligatorio")
               \cup Regla(d.motivo_solicitud = "", "Motivo de la solicitud es obligatorio")
          ELSE {})
    \cup Regla(d.motivo_solicitud = "Cambio de Alquiler" /\ EnBlanco(d.motivo_cambio_alquiler),
               "Debe especificar el motivo del cambio de alquiler")
    \cup Regla(d.motivo_solicitud = FallaCritica /\ EnBlanco(d.detalle_fallo),
               "Debe describir la falla crítica que justifica el cambio")
    \cup Regla(d.motivo_solicitud \in {ServicioTecnico, ServicioPostVenta}
               /\ Len(d.fallas_problemas) = 0 /\ EnBlanco(d.detalle_fallo),
               "Debe seleccionar al menos una opción o especificar en 'Otros' el motivo de su solicitud")

\* the positions of data['equipos'] that hold an entry with a type
ConTipo(d) ==
    {k \in 1..Len(d.equipos) :
        d.equipos[k].tipo_equipo \notin {"", "Seleccionar tipo..."}}

TextosDeEquipo ==
    {"La marca del equipo {i} es obligatoria", "El modelo del equipo {i} es obligatorio",
     "El número de serie del equipo {i} es obligatorio"}

\* the texts of the list of errors that are not about one entry of the equipment
TextosGenerales(errores) == {e.texto : e \in {x \in Elementos(errores) : x.equipo = 0}}

\* C12: es_valido is true exactly when the list of errors is empty, and the list
\* holds the error of every violated rule whatever else is violated: one error
\* for each violated common, category and reason rule, the count error when no
\* entry has a type, and otherwise one error for each missing brand, model and
\* serial number of an entry with a type
C12_ErroresAcumulados ==
    validacion.hecha =>
        /\ validacion.es_valido <=> (validacion.errores = <<>>)
        /\ TextosGenerales(validacion.errores) \ {"Debe registrar al menos un equipo"}
              = ReglasVioladas(data)
        /\ \A t \in ReglasVioladas(data) : Veces(validacion.errores, t) = 1
        /\ Veces(validacion.errores, "Debe registrar al menos un equipo")
              = (IF ConTipo(data) = {} THEN 1 ELSE 0)
        /\ Veces(validacion.errores, "La marca del equipo {i} es obligatoria")
              = Cardinality({k \in ConTipo(data) : SinElegir(data.equipos[k].marca)})
        /\ Veces(validacion.errores, "El modelo del equipo {i} es obligatorio")
              = Cardinality({k \in ConTipo(data) : SinElegir(data.equipos[k].modelo)})
        /\ Veces(validacion.errores, "El número de serie del equipo {i} es obligatorio")
              = Cardinality({k \in ConTipo(data) : Len(data.equipos[k].numero_serie) = 0})

\* C12, witness: a validated submission that violates a common rule, a category
\* rule, a reason rule and an equipment rule at once, with the four errors
C12_CuatroGruposALaVez ==
    /\ validacion.hecha
    /\ data.quien_completa = "Distribuidor"
    /\ {"El correo electrónico es obligatorio", "CUIT es obligatorio",
        "Debe seleccionar al menos una opción o especificar en 'Otros' el motivo de su solicitud",
        "Debe registrar al menos un equipo"} \subseteq TextosGenerales(validacion.errores)
    /\ ~validacion.es_valido

\* C13: a submission whose equipment list is empty or holds only entries with
\* no type or the placeholder type is invalid and carries the error "Debe
\* registrar al menos un equipo" exactly once, whatever the other fields hold
C13_SinEquipos ==
    (validacion.hecha /\ ConTipo(data) = {}) =>
        /\ ~validacion.es_valido
        /\ Veces(validacion.errores, "Debe registrar al menos un equipo") = 1

\* C13, witness: a complete form whose only equipment entries have the
\* placeholder type gets this error and no other
C13_SoloPlaceholder ==
    /\ validacion.hecha
    /\ Len(data.equipos) = 2
    /\ \A k \in 1..Len(data.equipos) : data.equipos[k].tipo_equipo = "Seleccionar tipo..."
    /\ validacion.errores = <<Error("Debe registrar al menos un equipo")>>

\* a Distribuidor form with every required field filled, a service reason and
\* one complete equipment entry
DistribuidorCompleto(d) ==
    /\ d.quien_completa = "Distribuidor"
    /\ Len(d.email) > 0 /\ Len(d.nombre_fantasia) > 0 /\ Len(d.razon_social) > 0
    /\ Len(d.cuit) > 0 /\ Len(d.contacto_nombre) > 0 /\ Len(d.contacto_telefono) > 0
    /\ ~SinElegir(d.comercial_syemed) /\ d.contacto_tecnico # ""
    /\ d.motivo_solicitud \in {ServicioTecnico, ServicioPostVenta}
    /\ Len(d.equipos) = 1
    /\ ConTipo(d) = {1}
    /\ ~SinElegir(d.equipos[1].marca) /\ ~SinElegir(d.equipos[1].modelo)
    /\ Len(d.equipos[1].numero_serie) > 0

\* C14: such a form is valid with no error when a tag is selected or the detail
\* is not blank, and gets exactly the error asking to select an option when no
\* tag is selected and the detail is empty or blank
C14_OpcionODetalle ==
    (validacion.hecha /\ DistribuidorCompleto(data)) =>
        IF Len(data.fallas_problemas) > 0 \/ ~EnBlanco(data.detalle_fallo)
        THEN validacion.es_valido /\ validacion.errores = <<>>
        ELSE /\ ~validacion.es_valido
             /\ validacion.errores =
                  <<Error("Debe seleccionar al menos una opción o especificar en 'Otros' el motivo de su solicitud")>>

\* C14, witness: no tag and a detail made of a blank: the one error
C14_DetalleEnBlanco ==
    /\ validacion.hecha
    /\ DistribuidorCompleto(data)
    /\ data.fallas_problemas = <<>>
    /\ data.detalle_fallo = <<" ">>
    /\ Len(validacion.errores) = 1

\* the error of the entry at position k of data['equipos']
ErrorDeEntrada(texto, k) == [texto |-> texto, equipo |-> k]

\* C15: for every entry with a type, each missing brand, model and serial number
\* gives one error whose ordinal is the position of the entry in
\* data['equipos'], the "Equipo N" of the form
C15_OrdinalDelFormulario ==
    validacion.hecha =>
        \A k \in ConTipo(data) :
            /\ SinElegir(data.equipos[k].marca)
                  <=> ErrorDeEntrada("La marca del equipo {i} es obligatoria", k)
                         \in Elementos(validacion.errores)
            /\ SinElegir(data.equipos[k].modelo)
                  <=> ErrorDeEntrada("El modelo del equipo {i} es obligatorio", k)
                         \in Elementos(validacion.errores)
            /\ Len(data.equipos[k].numero_serie) = 0
                  <=> ErrorDeEntrada("El número de serie del equipo {i} es obligatorio", k)
                         \in Elementos(validacion.errores)

---------------------------------------------------------------------------
(* Uploaded files and their validation (validar_archivo_completo) *)

\* an uploaded file: its name split at the dots, its size in MB and what
\* python-magic detects ("no_detectado": the detection raised)
Archivo(partes, tamano_mb, mime) == [partes |-> partes, tamano_mb |-> tamano_mb, mime |-> mime]

\* no file chosen in an uploader (None)
SinArchivo == Archivo(<<>>, 0, "")

EXTENSIONES_PERMITIDAS ==
    [imagenes |-> {"jpg", "jpeg", "png", "gif", "bmp", "webp"},
     videos |-> {"mp4", "mov", "avi", "mkv", "webm"},
     documentos |-> {"pdf", "doc", "docx", "txt"}]

MIME_TYPES_PERMITIDOS ==
    {"image/jpeg", "image/png", "image/gif", "image/bmp", "image/webp", "video/mp4",
     "video/quicktime", "video/x-msvideo", "video/x-matroska", "video/webm",
     "application/pdf", "application/msword",
     "application/vnd.openxmlformats-officedocument.wordprocessingml.document",
     "text/plain"}

TAMANO_MAX_IMAGEN == 10

TAMANO_MAX_VIDEO == 50

TAMANO_MAX_DOCUMENTO == 5

\* the part after the last dot, in lower case
extension(archivo) ==
    LET ultima == archivo.partes[Len(archivo.partes)]
    IN  IF ultima = "JPG" THEN "jpg" ELSE IF ultima = "EXE" THEN "exe" ELSE ultima

escanear_nombre_archivo(archivo) ==
    /\ ~(/\ Len(archivo.partes) >= 2
         /\ extension(archivo) \in {"exe", "bat", "cmd", "sh", "ps1", "scr", "vbs", "js",
                                    "jar", "com", "pif", "msi", "dll", "sys"})
    /\ Len(archivo.partes) <= 2

validar_extension_archivo(archivo) ==
    extension(archivo) \in (EXTENSIONES_PERMITIDAS.imagenes \cup EXTENSIONES_PERMITIDAS.videos
                            \cup EXTENSIONES_PERMITIDAS.documentos)

validar_tamano_archivo(archivo) ==
    IF extension(archivo) \in EXTENSIONES_PERMITIDAS.imagenes
    THEN archivo.tamano_mb <= TAMANO_MAX_IMAGEN
    ELSE IF extension(archivo) \in EXTENSIONES_PERMITIDAS.videos
    THEN archivo.tamano_mb <= TAMANO_MAX_VIDEO
    ELSE IF extension(archivo) \in EXTENSIONES_PERMITIDAS.documentos
    THEN archivo.tamano_mb <= TAMANO_MAX_DOCUMENTO
    ELSE TRUE

\* a detection that raises is answered with (False, "unknown")
validar_mime_type(archivo) == archivo.mime \in MIME_TYPES_PERMITIDOS

validar_archivo_completo(archivo) ==
    /\ escanear_nombre_archivo(archivo)
    /\ validar_extension_archivo(archivo)
    /\ validar_tamano_archivo(archivo)
    /\ validar_mime_type(archivo)

\* the check of validar_archivo_completo that turns the file down
mensaje_archivo(archivo) ==
    IF ~escanear_nombre_archivo(archivo) THEN "Nombre inválido"
    ELSE IF ~validar_extension_archivo(archivo) THEN "Extensión no permitida"
    ELSE IF ~validar_tamano_archivo(archivo) THEN "supera el tamaño máximo"
    ELSE IF ~validar_mime_type(archivo) THEN "Tipo de archivo no permitido"
    ELSE "Archivo válido"

\* the files handed to validar_archivo_completo: names with one, two and no
\* extension, sizes around the three limits, detected types and a detection
\* that is not available
ArchivosPosibles ==
    {Archivo(partes, tamano_mb, mime) :
        partes \in {<<"foto", "jpg">>, <<"foto", "JPG">>, <<"foto", "exe">>,
                    <<"foto", "jpg", "exe">>, <<"foto", "pdf", "jpg">>, <<"foto">>,
                    <<"video", "mp4">>, <<"factura", "pdf">>, <<"nota", "xyz">>},
        tamano_mb \in {1, TAMANO_MAX_DOCUMENTO + 1, TAMANO_MAX_IMAGEN + 1,
                       TAMANO_MAX_VIDEO + 1},
        mime \in {"image/jpeg", "application/pdf", "video/mp4", "application/x-dosexec",
                  "no_detectado"}}

InitArchivos ==
    /\ \E archivo \in ArchivosPosibles : data = [archivo |-> archivo]
    /\ validacion = [hecha |-> FALSE]
    /\ entorno = "con_fallas"
    /\ clientes = {}
    /\ llamada = SinLlamada
    /\ relevantes = {}
    /\ resultados = <<>>
    /\ conexiones = 0
    /\ mensajes = {}
    /\ excepcion = FALSE
    /\ InitSesion
    /\ InitEnvio

\* valido, mensaje = validar_archivo_completo(archivo)
ValidarArchivo ==
    /\ ~validacion.hecha
    /\ validacion' = [hecha |-> TRUE,
                      es_valido |-> validar_archivo_completo(data.archivo),
                      mensaje |-> mensaje_archivo(data.archivo)]
    /\ UNCHANGED <<varsComponente, data, varsEnvio, entorno>>

NextArchivos == ValidarArchivo

SpecArchivos == InitArchivos /\ [][NextArchivos]_vars

\* C24: validar_archivo_completo checks the name, the extension, the size and
\* the MIME type in this order and answers with the first failure; when the
\* MIME type cannot be detected that check is skipped, and a file that passed
\* the other three is accepted
C24_OrdenYMimeOmitido ==
    validacion.hecha =>
        /\ validacion.mensaje =
              (IF ~escanear_nombre_archivo(data.archivo) THEN "Nombre inválido"
               ELSE IF ~validar_extension_archivo(data.archivo) THEN "Extensión no permitida"
               ELSE IF ~validar_tamano_archivo(data.archivo) THEN "supera el tamaño máximo"
               ELSE IF data.archivo.mime # "no_detectado"
                       /\ data.archivo.mime \notin MIME_TYPES_PERMITIDOS
               THEN "Tipo de archivo no permitido"
               ELSE "Archivo válido")
        /\ validacion.es_valido = (validacion.mensaje = "Archivo válido")

---------------------------------------------------------------------------
(* Sanitisers *)

LargoMaximoTexto == 1000

EsLetra(ch) == ch \in {"a", "c", "d", "o", "s", "u", "x", "A"}

\* caracteres_peligrosos (the backslash and the backquote are not among the
\* characters of the runs)
EsPeligroso(ch) == ch \in {"<", ">", "{", "}", "|", "^", "~", "[", "]"}

RECURSIVE colapsar_espacios(_)
\* ' '.join(texto.split()) of a text without leading or trailing blanks
colapsar_espacios(t) ==
    IF Len(t) < 2 THEN t
    ELSE IF EsEspacio(t[1]) /\ EsEspacio(t[2]) THEN colapsar_espacios(Tail(t))
    ELSE <<t[1]>> \o colapsar_espacios(Tail(t))

sanitizar_texto(texto, max_length) ==
    IF texto = <<>> THEN <<>>
    ELSE LET cortado == SubSeq(texto, 1, Min2(Len(texto), max_length))
             limpio == SelectSeq(cortado, LAMBDA ch : ~EsPeligroso(ch))
         IN  colapsar_espacios(strip(limpio))

\* re.match of ^[a-zA-Z0-9._%+-]+@[a-zA-Z0-9.-]+\.[a-zA-Z]{2,}$
patron_email(email) ==
    \E i \in 2..Len(email), j \in 3..Len(email) :
        /\ email[i] = "@"
        /\ \A k \in 1..(i - 1) :
              EsLetra(email[k]) \/ EsDigito(email[k]) \/ email[k] \in {".", "_", "%", "+", "-"}
        /\ j > i + 1
        /\ email[j] = "."
        /\ \A k \in (i + 1)..(j - 1) :
              EsLetra(email[k]) \/ EsDigito(email[k]) \/ email[k] \in {".", "-"}
        /\ Len(email) >= j + 2
        /\ \A k \in (j + 1)..Len(email) : EsLetra(email[k])

\* None is NULO
sanitizar_email(email) ==
    IF ~patron_email(email) THEN NULO ELSE strip(Minusculas(email))

sanitizar_numero_serie(numero_serie) ==
    IF numero_serie = <<>> THEN <<>>
    ELSE strip(SelectSeq(numero_serie,
                         LAMBDA ch : EsLetra(ch) \/ EsDigito(ch) \/ ch = "-" \/ EsEspacio(ch)))

---------------------------------------------------------------------------
(* Rate limit and suspicious attempts *)

\* aplicar_seguridad_formulario: verificar_rate_limit(max_solicitudes=5, ventana_minutos=60)
MaxSolicitudes == 5

VentanaMinutos == 60

\* the timestamps of the user that are still inside the window
registros_recientes(rate_limit, ahora, ventana_minutos) ==
    SelectSeq(rate_limit, LAMBDA ts : ahora - ts < ventana_minutos)

verificar_rate_limit(rate_limit, ahora, max_solicitudes, ventana_minutos) ==
    Len(registros_recientes(rate_limit, ahora, ventana_minutos)) < max_solicitudes

\* registrar_intento_sospechoso: the counter of the session goes up by one
registrar_intento_sospechoso(ses) ==
    [ses EXCEPT !.intentos_sospechosos = @ + 1]

\* the files aplicar_seguridad_formulario validates, in its order
archivos_a_validar(d) ==
    LET RECURSIVE fotos(_)
        fotos(eqs) == IF eqs = <<>> THEN <<>> ELSE Head(eqs).fotos_fallas \o fotos(Tail(eqs))
    IN  fotos(d.equipos) \o SelectSeq(d.facturas, LAMBDA f : f # SinArchivo)

\* step 4 of aplicar_seguridad_formulario, after the e-mail
sanitizar_data(d) ==
    [d EXCEPT !.detalle_fallo = sanitizar_texto(@, LargoMaximoTexto),
              !.nombre_fantasia = sanitizar_texto(@, LargoMaximoTexto),
              !.razon_social = sanitizar_texto(@, LargoMaximoTexto),
              !.contacto_nombre = sanitizar_texto(@, LargoMaximoTexto),
              !.equipos = [i \in 1..Len(@) |->
                             [@[i] EXCEPT !.numero_serie = sanitizar_numero_serie(@)]]]

\* aplicar_seguridad_formulario(data, None, data['facturas']) at the hour "ahora":
\* whether it approves, and the data and the session it leaves
aplicar_seguridad_formulario(d, ses, ahora) ==
    LET recientes == registros_recientes(ses.rate_limit, ahora, VentanaMinutos)
        limpiada == [ses EXCEPT !.rate_limit = recientes]
        email == sanitizar_email(d.email)
    IN  IF ~verificar_rate_limit(ses.rate_limit, ahora, MaxSolicitudes, VentanaMinutos)
        THEN [aprobado |-> FALSE, data |-> d, sesion |-> registrar_intento_sospechoso(limpiada)]
        ELSE IF \E i \in DOMAIN archivos_a_validar(d) :
                    ~validar_archivo_completo(archivos_a_validar(d)[i])
        THEN [aprobado |-> FALSE, data |-> d, sesion |-> registrar_intento_sospechoso(limpiada)]
        ELSE IF email = NULO \/ email = <<>>
        THEN [aprobado |-> FALSE, data |-> [d EXCEPT !.email = email], sesion |-> limpiada]
        ELSE [aprobado |-> TRUE,
              data |-> sanitizar_data([d EXCEPT !.email = email]),
              sesion |-> [limpiada EXCEPT !.rate_limit = Append(@, ahora)]]

---------------------------------------------------------------------------
(* insertar_solicitud: the rows it writes *)

\* data.get(...) of the keys the form never fills falls back to the default
fila_solicitud(id, d) ==
    [id |-> id, email_solicitante |-> d.email, quien_completa |-> d.quien_completa,
     area_solicitante |-> d.area_solicitante, solicitante |-> d.solicitante,
     nivel_urgencia |-> "Media", logistica_cargo |-> "", equipo_corresponde_a |-> "",
     motivo_solicitud |-> "", estado |-> "Pendiente", pdf_url |-> NINGUNO]

\* the OST the database generates for an equipment row
ost_generado(id) == id + 100

\* positions of data['equipos'] that get a row
posiciones_con_fila(d) ==
    {i \in 1..Len(d.equipos) :
        d.equipos[i].tipo_equipo # "" /\ d.equipos[i].tipo_equipo # "Seleccionar tipo..."}

\* the equipment rows in the order of their INSERTs; ultimo_id is the last id
\* the sequence of the table has given out
filas_equipos(solicitud_id, d, ultimo_id) ==
    LET P == posiciones_con_fila(d)
        posicion(k) == CHOOSE i \in P : Cardinality({j \in P : j <= i}) = k
    IN  [k \in 1..Cardinality(P) |->
            [id |-> ultimo_id + k, ost |-> ost_generado(ultimo_id + k),
             solicitud_id |-> solicitud_id, numero_equipo |-> posicion(k),
             tipo_equipo |-> d.equipos[posicion(k)].tipo_equipo,
             numero_serie |-> d.equipos[posicion(k)].numero_serie]]

\* the rows of archivos_adjuntos; equipo_id 0 is NULL
filas_adjuntos(solicitud_id, d, equipos_ids) ==
    {[solicitud_id |-> solicitud_id, orden |-> k,
      equipo_id |-> IF d.archivos_urls[k].equipo_num <= Len(equipos_ids)
                    THEN equipos_ids[d.archivos_urls[k].equipo_num] ELSE 0,
      nombre_archivo |-> d.archivos_urls[k].nombre,
      categoria |-> IF d.archivos_urls[k].tipo = "factura" THEN "factura" ELSE "falla"] :
        k \in 1..Len(d.archivos_urls)}

\* conn.commit()
confirmar(base, transaccion) ==
    [base EXCEPT !.solicitudes = @ \cup transaccion.solicitudes,
                 !.equipos = @ \cup transaccion.equipos,
                 !.archivos_adjuntos = @ \cup transaccion.archivos_adjuntos]

\* a transaction that ends without commit and leaves its request row behind
deshacer_solo_cabecera(base, transaccion) ==
    [base EXCEPT !.solicitudes = @ \cup transaccion.solicitudes]

\* a transaction that ends without commit and loses its attachment rows only
deshacer_sin_adjuntos(base, transaccion) ==
    [base EXCEPT !.solicitudes = @ \cup transaccion.solicitudes,
                 !.equipos = @ \cup transaccion.equipos]

\* conn.rollback(), or the server dropping the transaction of a closed connection
deshacer(base, transaccion) == base

---------------------------------------------------------------------------
(* procesar_formulario: equipment filter and uploads *)

\* equipos_validos of procesar_formulario
equipos_a_procesar(d) ==
    SelectSeq(d.equipos, LAMBDA eq : eq.tipo_equipo # "Seleccionar tipo..."
                                     /\ eq.numero_serie # <<>>)

RECURSIVE fotos_desde(_, _)
\* the photo uploads of the entries from position i on
fotos_desde(equipos, i) ==
    IF i > Len(equipos) THEN <<>>
    ELSE [k \in 1..Len(equipos[i].fotos_fallas) |->
             [tipo |-> "foto_video", equipo_num |-> i,
              nombre |-> equipos[i].fotos_fallas[k].partes,
              tamano |-> equipos[i].fotos_fallas[k].tamano_mb]]
         \o fotos_desde(equipos, i + 1)

RECURSIVE facturas_desde(_, _)
facturas_desde(facturas, i) ==
    IF i > Len(facturas) THEN <<>>
    ELSE (IF facturas[i] = SinArchivo THEN <<>>
          ELSE <<[tipo |-> "factura", equipo_num |-> i, nombre |-> facturas[i].partes,
                  tamano |-> facturas[i].tamano_mb]>>)
         \o facturas_desde(facturas, i + 1)

\* every upload procesar_formulario attempts, in order
subidas(d) == fotos_desde(d.equipos, 1) \o facturas_desde(d.facturas, 1)

RECURSIVE sin_fallidas(_, _, _)
\* urls_archivos: the uploads that succeeded
sin_fallidas(lista, fallidas, k) ==
    IF k > Len(lista) THEN <<>>
    ELSE (IF k \in fallidas THEN <<>> ELSE <<lista[k]>>) \o sin_fallidas(lista, fallidas, k + 1)

---------------------------------------------------------------------------
(* The form page and the "Enviar Solicitud" run *)

\* most "Enviar Solicitud" clicks of a run
MaxEnvios == 1

\* latest time of the clock, in minutes
MaxReloj == 60

\* email-validator: something@domain.tld
validate_email(email) ==
    \E i \in 2..Len(email) :
        /\ email[i] = "@"
        /\ \A k \in 1..Len(email) : k # i => email[k] # "@" /\ ~EsEspacio(email[k])
        /\ \E j \in (i + 2)..(Len(email) - 1) : email[j] = "."

validar_email_formato(email) == strip(email) # <<>> /\ validate_email(email)

tiene_motivo(d) ==
    IF d.quien_completa = "Colaborador de Syemed" THEN d.equipo_corresponde_a # ""
    ELSE d.motivo_solicitud # ""

FotoBuena == Archivo(<<"foto", "jpg">>, 1, "image/jpeg")

FacturaBuena == Archivo(<<"factura", "pdf">>, 1, "application/pdf")

\* a program under the name of a picture
FotoMala == Archivo(<<"foto", "jpg">>, 1, "application/x-dosexec")

MotivoServicio ==
    [motivo_solicitud |-> ServicioTecnico, motivo_cambio_alquiler |-> <<>>,
     detalle_fallo |-> <<"x">>, fallas_problemas |-> <<>>]

\* a form of a distributor with its equipment entries and invoices
FormularioDistribuidor(eqs, facturas) ==
    [Envio(<<"Distribuidor", "">>, MotivoServicio, {}, eqs) EXCEPT !.facturas = facturas]

\* what the user has on the page when the script runs: complete forms without
\* and with files, an entry with the placeholder type before a complete one, a
\* serial number and a name made of characters the sanitisers remove, a missing
\* field, a forbidden file, a form filled in by a Colaborador
FormulariosEnvio ==
    {FormularioDistribuidor(<<EquipoCompleto>>, <<SinArchivo>>),
     FormularioDistribuidor(<<[EquipoCompleto EXCEPT !.fotos_fallas = <<FotoBuena>>]>>,
                            <<FacturaBuena>>),
     FormularioDistribuidor(<<Equipo("Seleccionar tipo...", "", "", <<>>, <<>>),
                              [EquipoCompleto EXCEPT !.fotos_fallas = <<FotoBuena>>]>>,
                            <<SinArchivo, FacturaBuena>>),
     FormularioDistribuidor(<<[EquipoCompleto EXCEPT !.numero_serie = <<"#">>]>>,
                            <<SinArchivo>>),
     FormularioDistribuidor(<<Equipo("Seleccionar tipo...", "", "", <<>>, <<>>),
                              EquipoCompleto,
                              [EquipoCompleto EXCEPT !.numero_serie = <<"x">>]>>,
                            <<SinArchivo, FacturaBuena, SinArchivo>>),
     [FormularioDistribuidor(<<EquipoCompleto>>, <<SinArchivo>>)
        EXCEPT !.nombre_fantasia = <<"<">>],
     [FormularioDistribuidor(<<EquipoCompleto>>, <<SinArchivo>>) EXCEPT !.cuit = <<>>],
     FormularioDistribuidor(<<[EquipoCompleto EXCEPT !.fotos_fallas = <<FotoMala>>]>>,
                            <<SinArchivo>>),
     [Envio(<<"Colaborador de Syemed", "Distribuidor">>, MotivoServicio, {},
            <<EquipoCompleto>>) EXCEPT !.facturas = <<SinArchivo>>]}

\* most "Enviar Solicitud" clicks of a run in which only the database
\* connection fails
MaxEnviosSinFallas == 6

\* the outcomes of the calls to Cloudinary, the database statements, the PDF
\* library and the mail server: in "con_fallas" each may fail, in
\* "solo_conexion" only psycopg2.connect may
FallasPosibles == IF entorno = "con_fallas" THEN BOOLEAN ELSE {FALSE}

\* whether the user solves the captcha
CaptchasPosibles == IF entorno = "con_fallas" THEN BOOLEAN ELSE {TRUE}

EnviosPosibles == IF entorno = "con_fallas" THEN MaxEnvios ELSE MaxEnviosSinFallas

\* the forms of the runs in which only the connection fails, and of the later
\* requests of a session in the other runs: a complete one and one with a
\* forbidden file
FormulariosSinFallas ==
    {FormularioDistribuidor(<<EquipoCompleto>>, <<SinArchivo>>),
     FormularioDistribuidor(<<[EquipoCompleto EXCEPT !.fotos_fallas = <<FotoMala>>]>>,
                            <<SinArchivo>>)}

FormulariosPosibles ==
    IF entorno = "con_fallas" /\ envio.numero = 0 THEN FormulariosEnvio
    ELSE FormulariosSinFallas

InitFormulario ==
    /\ entorno = "con_fallas"
    /\ data = DataVacio
    /\ validacion = SinValidar
    /\ clientes = {}
    /\ llamada = SinLlamada
    /\ relevantes = {}
    /\ resultados = <<>>
    /\ conexiones = 0
    /\ mensajes = {}
    /\ excepcion = FALSE
    /\ InitSesion
    /\ InitEnvio

\* what a call of insertar_solicitud hands back: the 3-tuple of the success
\* path, the 2-tuple of its except branch, or the exception of the except
\* branch itself when conn is still None
retorno_insertar(conectado, falla) ==
    IF ~falla THEN "tupla_3" ELSE IF conectado THEN "tupla_2" ELSE "excepcion"

\* exito, resultado, equipos_osts = insertar_solicitud(...): whether the
\* statement raises
desempaquetar_falla(retorno) == retorno # "tupla_3"

Paso(nombre) == envio' = [envio EXCEPT !.pasos = Append(@, nombre)]

\* a failed call of insertar_solicitud: the transaction ends without commit; the
\* script goes on to "if not exito" only when the result unpacks
PasoFallido(nombre, retorno) ==
    /\ envio' = [envio EXCEPT !.pasos = Append(@, nombre),
                              !.retorno = retorno,
                              !.excepcion = desempaquetar_falla(retorno),
                              !.error_mostrado = ~desempaquetar_falla(retorno),
                              !.filas_deshechas = Cardinality(tx.solicitudes)
                                                  + Cardinality(tx.equipos)
                                                  + Cardinality(tx.archivos_adjuntos)]
    /\ bd' = deshacer(bd, tx)
    /\ tx' = SinTransaccion
    /\ fase' = "formulario"
    /\ validacion' = SinValidar

\* a rerun of main() with the widgets as the user left them
Completar ==
    /\ fase = "formulario"
    /\ ~sesion.formulario_enviado
    /\ \E d \in FormulariosPosibles, captcha \in CaptchasPosibles :
        /\ data' = d
        /\ IF tiene_motivo(d) /\ validar_email_formato(d.email)
           THEN /\ \E res \in {validar_campos_obligatorios(d)} :
                     validacion' = [hecha |-> TRUE, es_valido |-> res.es_valido,
                                    errores |-> res.errores]
                /\ sesion' = [sesion EXCEPT !.captcha_valido = captcha]
           ELSE /\ validacion' = SinValidar
                /\ sesion' = [sesion EXCEPT !.captcha_valido = FALSE]
    /\ UNCHANGED <<varsComponente, entorno, fase, bd, tx, reloj, envio>>

\* the button "Enviar Solicitud": aplicar_seguridad_formulario, then the first
\* lines of procesar_formulario up to the uploads
ClickEnviar ==
    /\ fase = "formulario"
    /\ validacion.hecha
    /\ validacion.es_valido
    /\ sesion.captcha_valido
    /\ envio.numero < EnviosPosibles
    /\ LET seg == aplicar_seguridad_formulario(data, sesion, reloj)
       IN  /\ sesion' = seg.sesion
           /\ IF seg.aprobado
              THEN /\ data' = [seg.data EXCEPT !.equipos = equipos_a_procesar(seg.data)]
                   /\ fase' = "archivos"
                   /\ envio' = [SinEnvio EXCEPT !.numero = envio.numero + 1,
                                                !.pasos = <<"validacion", "seguridad">>,
                                                !.aprobadas = Append(envio.aprobadas, reloj),
                                                !.formulario = [equipos |-> data.equipos,
                                                                facturas |-> data.facturas]]
                   /\ UNCHANGED validacion
              ELSE /\ data' = seg.data
                   /\ fase' = "formulario"
                   /\ validacion' = SinValidar
                   /\ envio' = [SinEnvio EXCEPT !.numero = envio.numero + 1,
                                                !.pasos = <<"validacion">>,
                                                !.error_mostrado = TRUE,
                                                !.aprobadas = envio.aprobadas]
    /\ UNCHANGED <<varsComponente, entorno, bd, tx, reloj>>

\* the uploads to Cloudinary: the ones that fail are left out; the data is then
\* what insertar_solicitud receives
SubirArchivos ==
    /\ fase = "archivos"
    /\ \E fallidas \in {F \in SUBSET (1..Len(subidas(data))) : F # {} => TRUE \in FallasPosibles} :
        /\ data' = [data EXCEPT !.archivos_urls = sin_fallidas(subidas(data), fallidas, 1)]
        /\ envio' = [envio EXCEPT
                       !.pasos = Append(@, IF fallidas = {} THEN "archivos"
                                           ELSE "archivos_con_fallas"),
                       !.entregado_valido = validar_campos_obligatorios(data).es_valido]
    /\ fase' = "bd_conectar"
    /\ UNCHANGED <<varsComponente, entorno, validacion, bd, tx, sesion, reloj>>

\* insertar_solicitud(data): psycopg2.connect
BdConectar ==
    /\ fase = "bd_conectar"
    /\ \E falla \in BOOLEAN :
        IF falla
        THEN PasoFallido("insertar_sin_conexion", retorno_insertar(FALSE, TRUE))
        ELSE /\ tx' = [SinTransaccion EXCEPT !.abierta = TRUE]
             /\ fase' = "bd_solicitud"
             /\ Paso("insertar")
             /\ UNCHANGED <<bd, validacion>>
    /\ UNCHANGED <<varsComponente, entorno, data, sesion, reloj>>

\* INSERT INTO solicitudes ... RETURNING id
BdInsertarSolicitud ==
    /\ fase = "bd_solicitud"
    /\ \E falla \in FallasPosibles :
        IF falla
        THEN PasoFallido("solicitud_falla", retorno_insertar(TRUE, TRUE))
        ELSE LET id == bd.solicitudes_id_seq + 1
             IN  /\ bd' = [bd EXCEPT !.solicitudes_id_seq = id]
                 /\ tx' = [tx EXCEPT !.solicitudes = {fila_solicitud(id, data)}]
                 /\ envio' = [envio EXCEPT !.solicitud_id = id]
                 /\ fase' = "bd_equipos"
                 /\ UNCHANGED validacion
    /\ UNCHANGED <<varsComponente, entorno, data, sesion, reloj>>

\* the loop of INSERT INTO equipos ... RETURNING id, ost
BdInsertarEquipos ==
    /\ fase = "bd_equipos"
    /\ LET filas == filas_equipos(envio.solicitud_id, data, bd.equipos_id_seq)
       IN  \E falla \in {f \in FallasPosibles : f => Len(filas) > 0} :
            IF falla
            THEN PasoFallido("equipos_falla", retorno_insertar(TRUE, TRUE))
            ELSE /\ bd' = [bd EXCEPT !.equipos_id_seq = @ + Len(filas)]
                 /\ tx' = [tx EXCEPT !.equipos = {filas[k] : k \in 1..Len(filas)},
                                     !.equipos_ids = [k \in 1..Len(filas) |-> filas[k].id],
                                     !.equipos_osts = [k \in 1..Len(filas) |-> filas[k].ost]]
                 /\ fase' = "bd_adjuntos"
                 /\ UNCHANGED <<envio, validacion>>
    /\ UNCHANGED <<varsComponente, entorno, data, sesion, reloj>>

\* the loop of INSERT INTO archivos_adjuntos, in the transaction of the request
BdInsertarAdjuntos ==
    /\ fase = "bd_adjuntos"
    /\ \E falla \in {f \in FallasPosibles : f => Len(data.archivos_urls) > 0} :
        IF falla
        THEN PasoFallido("adjuntos_falla", retorno_insertar(TRUE, TRUE))
        ELSE /\ tx' = [tx EXCEPT !.archivos_adjuntos =
                                    filas_adjuntos(envio.solicitud_id, data, tx.equipos_ids)]
             /\ fase' = "bd_commit"
             /\ UNCHANGED <<bd, envio, validacion>>
    /\ UNCHANGED <<varsComponente, entorno, data, sesion, reloj>>

\* a session that gets the id of the request without the mark
sesion_sin_marcar(ses, solicitud_id) == [ses EXCEPT !.solicitud_id = solicitud_id]

\* what procesar_formulario puts into the session once the request is saved
sesion_guardada(ses, solicitud_id) ==
    [ses EXCEPT !.formulario_enviado = TRUE, !.solicitud_id = solicitud_id]

\* conn.commit(), the return of insertar_solicitud and the lines of
\* procesar_formulario that follow it
BdCommit ==
    /\ fase = "bd_commit"
    /\ \E falla \in FallasPosibles :
        IF falla
        THEN /\ PasoFallido("commit_falla", retorno_insertar(TRUE, TRUE))
             /\ UNCHANGED sesion
        ELSE /\ bd' = confirmar(bd, tx)
             /\ tx' = SinTransaccion
             /\ envio' = [envio EXCEPT !.pasos = Append(@, "guardada"),
                                       !.retorno = retorno_insertar(TRUE, FALSE),
                                       !.equipos_osts = tx.equipos_osts]
             /\ sesion' = sesion_guardada(sesion, envio.solicitud_id)
             /\ fase' = "pdf"
             /\ UNCHANGED validacion
    /\ UNCHANGED <<varsComponente, entorno, data, reloj>>

\* the first OST whatever the row
ost_equipo_primero(equipos_osts, i) ==
    IF equipos_osts # <<>> THEN equipos_osts[1] ELSE 0

\* the OST column of row i of "EQUIPOS REGISTRADOS"; 0 is "N/A"
ost_equipo(equipos_osts, i) ==
    IF i <= Len(equipos_osts) THEN equipos_osts[i] ELSE 0

\* the PDF: the OST of its title and the rows of its equipment table
generar_pdf_solicitud(d, solicitud_id, equipos_osts) ==
    LET P == posiciones_con_fila(d)
        posicion(k) == CHOOSE i \in P : Cardinality({j \in P : j <= i}) = k
    IN  [hecho |-> TRUE,
         titulo |-> IF equipos_osts # <<>> THEN equipos_osts[1] ELSE solicitud_id,
         filas |-> [k \in 1..Cardinality(P) |->
                      [ost |-> ost_equipo(equipos_osts, posicion(k)),
                       numero_serie |-> d.equipos[posicion(k)].numero_serie]]]

\* generar_pdf_solicitud; on an exception st.error and return, with no rerun
GenerarPdf ==
    /\ fase = "pdf"
    /\ \E falla \in FallasPosibles :
        IF falla
        THEN /\ envio' = [envio EXCEPT !.pasos = Append(@, "pdf_falla"),
                                       !.error_mostrado = TRUE]
             /\ fase' = "resumen"
        ELSE /\ envio' = [envio EXCEPT
                            !.pasos = Append(@, "pdf"),
                            !.pdf = generar_pdf_solicitud(data, sesion.solicitud_id,
                                                          envio.equipos_osts)]
             /\ fase' = "pdf_nube"
    /\ UNCHANGED <<varsComponente, entorno, data, validacion, bd, tx, sesion, reloj>>

\* UPDATE solicitudes SET pdf_url = ... WHERE id = ..., on a connection of its own
actualizar_pdf_url(base, solicitud_id) ==
    [base EXCEPT !.solicitudes =
        {IF r.id = solicitud_id THEN [r EXCEPT !.pdf_url = "url"] ELSE r : r \in @}]

\* subir_pdf_bytes_cloudinary and the update of pdf_url; failures only warn
SubirPdf ==
    /\ fase = "pdf_nube"
    /\ \E resultado \in {r \in {"guardado", "subida_falla", "update_falla"} :
                         r # "guardado" => TRUE \in FallasPosibles} :
        /\ bd' = IF resultado = "guardado" THEN actualizar_pdf_url(bd, sesion.solicitud_id)
                 ELSE bd
        /\ Paso(IF resultado = "guardado" THEN "pdf_nube" ELSE "pdf_nube_falla")
    /\ sesion' = [sesion EXCEPT !.pdf_bytes = TRUE]
    /\ fase' = "email"
    /\ UNCHANGED <<varsComponente, entorno, data, validacion, tx, reloj>>

\* enviar_email_con_pdf; failures only warn; then st.rerun()
EnviarEmail ==
    /\ fase = "email"
    /\ \E falla \in FallasPosibles : Paso(IF falla THEN "email_falla" ELSE "email")
    /\ fase' = "resumen"
    /\ UNCHANGED <<varsComponente, entorno, data, validacion, bd, tx, sesion, reloj>>

\* "Crear Nueva Solicitud" on the summary page: every key of the session but
\* form_key is deleted
NuevaSolicitud ==
    /\ fase = "resumen"
    /\ sesion' = SesionNueva
    /\ data' = DataVacio
    /\ validacion' = SinValidar
    /\ fase' = "formulario"
    /\ UNCHANGED <<varsComponente, entorno, bd, tx, reloj, envio>>

\* the time of a window goes by while a page is on the screen
Tic ==
    /\ fase \in {"formulario", "resumen"}
    /\ reloj + VentanaMinutos <= MaxReloj
    /\ reloj' = reloj + VentanaMinutos
    /\ UNCHANGED <<varsComponente, entorno, data, validacion, fase, bd, tx, sesion, envio>>

NextEnvio ==
    \/ Completar
    \/ ClickEnviar
    \/ SubirArchivos
    \/ BdConectar
    \/ BdInsertarSolicitud
    \/ BdInsertarEquipos
    \/ BdInsertarAdjuntos
    \/ BdCommit
    \/ GenerarPdf
    \/ SubirPdf
    \/ EnviarEmail
    \/ NuevaSolicitud
    \/ Tic

SpecEnvio == InitFormulario /\ [][NextEnvio]_vars

\* one session that submits again and again while every service but the
\* database connection works
InitSesionLarga ==
    /\ entorno = "solo_conexion"
    /\ data = DataVacio
    /\ validacion = SinValidar
    /\ clientes = {}
    /\ llamada = SinLlamada
    /\ relevantes = {}
    /\ resultados = <<>>
    /\ conexiones = 0
    /\ mensajes = {}
    /\ excepcion = FALSE
    /\ InitSesion
    /\ InitEnvio

SpecSesionLarga == InitSesionLarga /\ [][NextEnvio]_vars

---------------------------------------------------------------------------
(* Properties of the "Enviar Solicitud" run (SpecEnvio) *)

\* the steps of the last run that bear one of the names
Dados(nombres) == {i \in DOMAIN envio.pasos : envio.pasos[i] \in nombres}

\* insertar_solicitud was called in the last run
Llamado == Dados({"insertar", "insertar_sin_conexion"}) # {}

\* the step that has to have succeeded before a step is taken
PasoPrevio(nombre) ==
    CASE nombre = "seguridad" -> "validacion"
      [] nombre \in {"archivos", "archivos_con_fallas"} -> "seguridad"
      [] nombre \in {"insertar", "insertar_sin_conexion"} -> "archivos"
      [] nombre \in {"solicitud_falla", "equipos_falla", "adjuntos_falla", "commit_falla",
                     "guardada"} -> "insertar"
      [] nombre \in {"pdf", "pdf_falla"} -> "guardada"
      [] nombre \in {"pdf_nube", "pdf_nube_falla", "email", "email_falla"} -> "pdf"
      [] OTHER -> ""

\* C16: a submission goes through validation (with captcha and security checks),
\* the upload of the attachments, insertar_solicitud, the generation of the PDF
\* and the e-mail in this order, each step only after the one before it has
\* succeeded, and insertar_solicitud never gets data that fail the validation
C16_OrdenDelEnvio ==
    /\ \A i \in DOMAIN envio.pasos :
          PasoPrevio(envio.pasos[i]) # "" =>
             \E j \in 1..(i - 1) : envio.pasos[j] = PasoPrevio(envio.pasos[i])
    /\ Llamado => envio.entregado_valido

\* the request of the last run is committed and its page is still open
Guardada(f, e) ==
    /\ f \in {"pdf", "pdf_nube", "email", "resumen"}
    /\ \E i \in DOMAIN e.pasos : e.pasos[i] = "guardada"

\* the rows of a table without the column the PDF update writes
SinPdfUrl(filas) == {[r EXCEPT !.pdf_url = NINGUNO] : r \in filas}

\* C17: once insertar_solicitud has committed, formulario_enviado is true with
\* the id of the request and stays so through the steps that follow, whether
\* they succeed or fail; no step is taken twice and no persisted row is removed
C17_EnviadoTrasGuardar ==
    [][/\ Guardada(fase', envio') =>
             /\ sesion'.formulario_enviado
             /\ sesion'.solicitud_id = envio'.solicitud_id
             /\ \E r \in bd'.solicitudes : r.id = envio'.solicitud_id
             /\ \A n \in {"guardada", "pdf", "pdf_falla", "pdf_nube", "pdf_nube_falla",
                          "email", "email_falla"} :
                   Cardinality({i \in DOMAIN envio'.pasos : envio'.pasos[i] = n}) <= 1
       /\ SinPdfUrl(bd.solicitudes) \subseteq SinPdfUrl(bd'.solicitudes)
       /\ bd.equipos \subseteq bd'.equipos
       /\ bd.archivos_adjuntos \subseteq bd'.archivos_adjuntos]_vars

\* the request is saved, the upload of the PDF and the e-mail have failed, and
\* the summary page is shown
C17_FallasTrasGuardar ==
    /\ fase = "resumen"
    /\ Dados({"guardada"}) # {}
    /\ Dados({"pdf_nube_falla"}) # {}
    /\ Dados({"email_falla"}) # {}
    /\ sesion.formulario_enviado
    /\ \E r \in bd.solicitudes : r.id = sesion.solicitud_id /\ r.pdf_url = NINGUNO

\* the database write of the last insertar_solicitud call failed
InsertarFallo == envio.retorno \in {"tupla_2", "excepcion"}

\* C18: when the database write of insertar_solicitud fails, the function hands
\* back a failure result, procesar_formulario shows an error and stops, no
\* exception escapes, formulario_enviado stays false, no PDF and no e-mail
C18_FallaSinExcepcion ==
    InsertarFallo =>
        /\ envio.retorno = "tupla_2"
        /\ ~envio.excepcion
        /\ envio.error_mostrado
        /\ ~sesion.formulario_enviado
        /\ Dados({"pdf", "pdf_falla", "email", "email_falla"}) = {}

\* the persisted rows of the request of the last call
CabeceraGuardada == {r \in bd.solicitudes : r.id = envio.solicitud_id}

EquiposGuardados == {r \in bd.equipos : r.solicitud_id = envio.solicitud_id}

AdjuntosGuardados == {r \in bd.archivos_adjuntos : r.solicitud_id = envio.solicitud_id}

\* C19: insertar_solicitud is all-or-nothing for the request and its equipment:
\* while it runs and after it fails nothing of the call is persisted, after its
\* commit the request row and every equipment row are, and no equipment row is
\* ever persisted without its request
C19_TodoONada ==
    /\ (tx.abierta \/ InsertarFallo) => CabeceraGuardada = {} /\ EquiposGuardados = {}
    /\ Guardada(fase, envio) =>
          /\ Cardinality(CabeceraGuardada) = 1
          /\ Cardinality(EquiposGuardados) = Cardinality(posiciones_con_fila(data))
    /\ \A r \in bd.equipos : \E c \in bd.solicitudes : c.id = r.solicitud_id

\* the call failed after it had written the request and an equipment row
C19_FallaConFilasEscritas ==
    /\ Dados({"commit_falla"}) # {}
    /\ envio.filas_deshechas >= 2
    /\ envio.solicitud_id # 0
    /\ CabeceraGuardada = {}
    /\ EquiposGuardados = {}

\* C20 as stated: the attachment rows are written after the request and
\* equipment rows have been committed
C20_AdjuntosTrasCommit ==
    fase = "bd_adjuntos" => CabeceraGuardada # {}

\* C20: the attachment rows are written in the transaction of the request,
\* before its only commit: when their insertion runs nothing of the call is
\* persisted, when it fails nothing of the call ever is, and no attachment row
\* is persisted without its request
C20_AdjuntosEnLaTransaccion ==
    /\ fase = "bd_adjuntos" =>
          /\ tx.abierta
          /\ \E r \in tx.solicitudes : r.id = envio.solicitud_id
          /\ CabeceraGuardada = {}
    /\ Dados({"adjuntos_falla"}) # {} =>
          CabeceraGuardada = {} /\ EquiposGuardados = {} /\ AdjuntosGuardados = {}
    /\ \A r \in bd.archivos_adjuntos : \E c \in bd.solicitudes : c.id = r.solicitud_id

\* the insertion of the attachment rows failed after the request and an
\* equipment row had been written, and none of them is persisted
C20_FallaDeAdjuntos ==
    /\ Dados({"adjuntos_falla"}) # {}
    /\ envio.filas_deshechas >= 2
    /\ data.archivos_urls # <<>>
    /\ CabeceraGuardada = {}
    /\ EquiposGuardados = {}

\* C22: insertar_solicitud returns one OST per persisted equipment row, in the
\* order of the inserts, the PDF shows for every equipment row the OST of that
\* same equipment, and the title of the PDF carries the first OST
C22_OstPorEquipo ==
    Guardada(fase, envio) =>
        /\ Len(envio.equipos_osts) = Cardinality(EquiposGuardados)
        /\ \A k \in DOMAIN envio.equipos_osts :
              \E r \in EquiposGuardados :
                  /\ r.ost = envio.equipos_osts[k]
                  /\ Cardinality({q \in EquiposGuardados : q.id <= r.id}) = k
        /\ envio.pdf.hecho =>
              /\ envio.equipos_osts # <<>> => envio.pdf.titulo = envio.equipos_osts[1]
              /\ Len(envio.pdf.filas) = Cardinality(EquiposGuardados)
              /\ \A k \in DOMAIN envio.pdf.filas :
                    \E r \in EquiposGuardados :
                        /\ r.ost = envio.pdf.filas[k].ost
                        /\ r.numero_serie = envio.pdf.filas[k].numero_serie
                        /\ Cardinality({q \in EquiposGuardados : q.id <= r.id}) = k

\* a request with two equipment rows is saved and its PDF is built
C22_PdfConDosEquipos ==
    /\ Guardada(fase, envio)
    /\ envio.pdf.hecho
    /\ Len(envio.equipos_osts) = 2
    /\ Len(envio.pdf.filas) = 2
    /\ envio.pdf.filas[1].numero_serie # envio.pdf.filas[2].numero_serie

\* C25: every persisted request has at least one equipment row, and the data
\* handed to insertar_solicitud still pass validar_campos_obligatorios after
\* the sanitisation and the equipment filter
C25_PersistidaValida ==
    /\ \A c \in bd.solicitudes : \E r \in bd.equipos : r.solicitud_id = c.id
    /\ Llamado => envio.entregado_valido

\* the entry of the form, as the user filled it, on which a file was uploaded
EntradaDe(nombre) ==
    CHOOSE i \in DOMAIN envio.formulario.equipos :
        \/ envio.formulario.facturas[i].partes = nombre
        \/ \E k \in DOMAIN envio.formulario.equipos[i].fotos_fallas :
              envio.formulario.equipos[i].fotos_fallas[k].partes = nombre

\* C26: every persisted invoice or photo/video row is linked to the equipment
\* row of the form entry on which the user uploaded the file, also when other
\* entries of the form are dropped
C26_AdjuntoDeSuEquipo ==
    Guardada(fase, envio) =>
        \A r \in AdjuntosGuardados :
            \E e \in EquiposGuardados :
                /\ e.id = r.equipo_id
                /\ e.numero_serie =
                      sanitizar_numero_serie(
                          envio.formulario.equipos[EntradaDe(r.nombre_archivo)].numero_serie)

\* C27: the row of "solicitudes" of a saved request carries the reason, the
\* urgency, the logistics and the owner of the equipment that the form
\* collected.
C27_CabeceraConValoresDelFormulario ==
    Guardada(fase, envio) =>
        \A c \in CabeceraGuardada :
            /\ c.motivo_solicitud = data.motivo_solicitud
            /\ c.nivel_urgencia = data.nivel_urgencia
            /\ c.logistica_cargo = data.logistica_cargo
            /\ c.equipo_corresponde_a = data.equipo_corresponde_a

---------------------------------------------------------------------------
(* Properties of a long session (SpecSesionLarga) *)

\* the approvals of aplicar_seguridad_formulario that lie in the window that
\* ends now
AprobadasEnVentana ==
    {i \in DOMAIN envio.aprobadas : reloj - envio.aprobadas[i] < VentanaMinutos}

\* C21: over any sequence of submissions, rejected attempts and "Crear Nueva
\* Solicitud" resets of one session, at most 5 submissions are approved by
\* aplicar_seguridad_formulario within a window of 60 minutes: an attempt made
\* while 5 approvals lie in the window is rejected
C21_LimiteEnVentana == Cardinality(AprobadasEnVentana) <= MaxSolicitudes

\* registrar_intento_sospechoso: "if st.session_state.intentos_sospechosos >= 3"
UmbralBloqueo == 3

\* aplicar_seguridad_formulario approves and procesar_formulario starts
PasoAprobado == fase = "formulario" /\ fase' = "archivos"

\* C23: once intentos_sospechosos has reached 3 no later submission of the
\* session is approved by aplicar_seguridad_formulario
C23_BloqueoTrasTresIntentos ==
    [][sesion.intentos_sospechosos >= UmbralBloqueo => ~PasoAprobado]_vars

=============================================================================
